---- MODULE Spec2Model ----
(***************************************************************************)
(* reduced.to: short-key issuance and resolution.                          *)
(*                                                                         *)
(* The model follows ShortenerController (src/unnamed/part_000) handler by *)
(* handler.  Every `await` that touches shared state (the link store, the  *)
(* click-event producer) is a separate step, so concurrent requests        *)
(* interleave exactly where the Node.js event loop lets them.              *)
(* ShortenerService, ShortenerProducer, SafeUrlService and UsageService    *)
(* are not part of the sources at hand; their operators are modelled from  *)
(* the design document and are marked as such in the comments.             *)
(***************************************************************************)
EXTENDS Integers, Sequences, FiniteSets, TLC

(***************************************************************************)
(* Bounds of the model.                                                    *)
(***************************************************************************)
MaxReq == 3        \* requests in one behaviour of resolution traffic
MaxBodies == 2     \* requests in one behaviour of validation traffic
MaxCreators == 2   \* requests in one behaviour of key-allocation traffic
MaxTime == 2       \* last value of the server clock
MaxAttempts == 2   \* random-key attempts before AllocationExhausted
MaxBulk == 2       \* entries in one bulk body
ChannelCapacity == 1   \* events the ingestion channel holds
MaxDay == 4        \* last day of the analytics calendar
MaxFacts == 2      \* click facts persisted in one behaviour
MaxQueries == 1    \* analytics requests in one behaviour
MaxLinks == 11     \* links the dashboard's user has had, deleted ones included
MaxUrls == 1       \* urls in a file uploaded for group shortening
MaxFetches == 2    \* link-list fetches of the dashboard in flight at one time
MaxRefetch == 1    \* refetch requests not yet answered by a fetch
MaxDeleted == 1    \* links the dashboard's user deletes

(***************************************************************************)
(* Values.  Keys are sequences of characters so that length and alphabet   *)
(* are computed, not assumed.  An absent (undefined) field of a body has   *)
(* the falsy value of its type: the empty sequence for the key, the empty  *)
(* string for the password, 0 for the expiration time; that is what the    *)
(* controller's `if (dto.key)` / `if (dto.password)` tests see.  A body    *)
(* that does carry a field with such a value ('' or 0) names the field in  *)
(* `sent`, which is what the validation of the body looks at.              *)
(***************************************************************************)
NoKey == <<>>
NoPassword == ""
NoTime == 0

\* The six UTM fields of ShortenerDto, in declaration order.  A link's UTM
\* set gives each a value; the empty string stands for an absent field.
UtmFields == <<"utm_ref", "utm_source", "utm_medium", "utm_campaign", "utm_term",
               "utm_content">>
UtmNames == {UtmFields[i] : i \in DOMAIN UtmFields}
NoUtm == [f \in UtmNames |-> ""]
NoUserId == ""

\* The character classes of /^[a-zA-Z0-9-]*$/.
Letters ==
    {"a", "b", "c", "d", "e", "f", "g", "h", "i", "j", "k", "l", "m",
     "n", "o", "p", "q", "r", "s", "t", "u", "v", "w", "x", "y", "z",
     "A", "B", "C", "D", "E", "F", "G", "H", "I", "J", "K", "L", "M",
     "N", "O", "P", "Q", "R", "S", "T", "U", "V", "W", "X", "Y", "Z"}
Digits == {"0", "1", "2", "3", "4", "5", "6", "7", "8", "9"}
KeyAlphabet == Letters \cup Digits \cup {"-"}

KeyAbcd == <<"a", "b", "c", "d">>
KeyDash == <<"x", "-", "y", "2">>
KeyBadChar == <<"a", "b", "_", "d">>
KeyShort == <<"a", "b", "c">>
KeyLong == <<"a", "a", "a", "a", "a", "a", "a", "a", "a", "a", "a",
             "a", "a", "a", "a", "a", "a", "a", "a", "a", "a">>
KeyGen == <<"g", "e", "n", "1">>

UrlOk == "https://example.com"
UrlUnsafe == "https://malware.example"
UrlMalformed == "not a url"
UrlNoProtocol == "example.com"

\* A UTM value of 101 characters.
UtmTooLong ==
    "aaaaaaaaaaaaaaaaaaaaaaaaaaaaaaaaaaaaaaaaaaaaaaaaaa"
        \o "aaaaaaaaaaaaaaaaaaaaaaaaaaaaaaaaaaaaaaaaaaaaaaaaaa" \o "a"

\* req.user of the Express request: undefined for an anonymous caller.
NoUser == [id |-> NoUserId, verified |-> FALSE]
UserUnverified == [id |-> "u0", verified |-> FALSE]
UserVerified == [id |-> "u1", verified |-> TRUE]
UserAtLimit == [id |-> "u2", verified |-> TRUE]

\* ShortenerDto: the body of POST shortener and each entry of POST shortener/bulk.
BaseDto == [url |-> UrlOk, key |-> NoKey, password |-> NoPassword,
            expirationTime |-> NoTime, temporary |-> FALSE, utm |-> NoUtm,
            sent |-> {}]

(***************************************************************************)
(* Responses and the exceptions the handlers throw.                        *)
(***************************************************************************)
Failure(kind, message) ==
    [kind |-> kind, message |-> message, url |-> "", key |-> NoKey, keys |-> <<>>]

Pending == Failure("pending", "")

NotFoundError == Failure("BadRequestException", "Shortened url is wrong or expired")
UnauthorizedError == Failure("UnauthorizedException", "Incorrect password for this url!")
UnsafeUrlError == Failure("BadRequestException", "This url is not safe to shorten!")
KeyConflictError == Failure("BadRequestException", "This short link already exists")
NotVerifiedError ==
    Failure("BadRequestException", "You must be verified in to create a shortened url")
LimitError == Failure("BadRequestException", "You have reached your link creation limit")
InvalidKeyFormatError == Failure("BadRequestException", "key must be 4 to 20 characters long")
InvalidUrlError == Failure("BadRequestException", "Url is invalid")
InvalidExpirationTimeError ==
    Failure("BadRequestException", "expirationTime must be a positive number")
InvalidUtmError ==
    Failure("BadRequestException", "utm must be shorter than or equal to 100 characters")
AllocationExhaustedError == Failure("AllocationExhausted", "no free key found")
InternalServerError == Failure("InternalServerError", "Internal server error")

OkLink(url, key) == [kind |-> "ok", message |-> "", url |-> url, key |-> key, keys |-> <<>>]
OkKey(key) == [kind |-> "ok", message |-> "", url |-> "", key |-> key, keys |-> <<>>]
OkKeys(keys) == [kind |-> "ok", message |-> "", url |-> "", key |-> NoKey, keys |-> keys]

(***************************************************************************)
(* ShortenerDto validation (class-validator decorators on `key`) and the   *)
(* dashboard's zod schema for the same field.                              *)
(***************************************************************************)
MinKeyLength == 4
MaxKeyLength == 20

MaxUtmLength == 100

\* @IsOptional(): the body does not carry the field, so its other validators
\* are skipped.  A field carried with '' or 0 is not skipped.
IsOptional(dto, field) == dto[field] = BaseDto[field] /\ field \notin dto.sent

\* @IsUrl({allow_fragments: true, require_protocol: true}), by its verdict
\* on the urls of the model.
IsUrl(url) == url \in {UrlOk, UrlUnsafe}

\* @IsString() @MaxLength(20) @MinLength(4) on a key the body carries.
ShortenerDtoKeyValid(key) == Len(key) >= MinKeyLength /\ Len(key) <= MaxKeyLength

\* @IsPositive() on an expirationTime the body carries.
IsPositive(n) == n > 0

\* CreateLinkInputSchema.key: max(20), /^[a-zA-Z0-9-]*$/, and at least 4
\* characters unless empty.
CreateLinkInputSchemaKey(key) ==
    /\ Len(key) <= 20
    /\ \A i \in 1..Len(key) : key[i] \in KeyAlphabet
    /\ (Len(key) = 0 \/ ~(Len(key) < 4))

(***************************************************************************)
(* Collaborators outside the sources at hand, modelled from the design     *)
(* document: SafeUrlService, UsageService, password hashing, addUtmParams, *)
(* and ShortenerService's view of the durable link store.                  *)
(***************************************************************************)
isSafeUrl(url) == url # UrlUnsafe

isEligibleToCreateLink(userId) == userId # UserAtLimit.id

hashPassword(password) == "$argon2$" \o password

verifyPassword(hash, password) == hash = hashPassword(password)

\* addUtmParams: every field of the UTM set that has a value is appended as
\* name=value, the first after "?", the others after "&".
RECURSIVE AppendUtm(_, _, _, _)
AppendUtm(url, utm, i, sep) ==
    IF i > Len(UtmFields) THEN url
    ELSE IF utm[UtmFields[i]] = "" THEN AppendUtm(url, utm, i + 1, sep)
    ELSE AppendUtm(url \o sep \o UtmFields[i] \o "=" \o utm[UtmFields[i]], utm, i + 1, "&")

addUtmParams(url, utm) == AppendUtm(url, utm, 1, "?")

Range(s) == {s[i] : i \in DOMAIN s}

\* isAvailable(key): a pure existence check against the store.
isKeyAvailable(links, key) == \A i \in DOMAIN links : links[i].key # key

IsExpired(link, time) == link.expirationTime # NoTime /\ time > link.expirationTime

\* getLink without the expiry gate: an expired link is returned like a live one.
getLinkIgnoringExpiry(links, time, key) ==
    IF isKeyAvailable(links, key) THEN <<>>
    ELSE <<links[CHOOSE j \in DOMAIN links :
                    /\ links[j].key = key
                    /\ \A k \in DOMAIN links : links[k].key = key => j <= k]>>

\* findLinkByKey followed by the expiry gate: <<>> is null, <<link>> a hit.
getLink(links, time, key) ==
    IF isKeyAvailable(links, key) THEN <<>>
    ELSE LET i == CHOOSE j \in DOMAIN links :
                      /\ links[j].key = key
                      /\ \A k \in DOMAIN links : links[k].key = key => j <= k
             link == links[i]
         IN IF IsExpired(link, time) THEN <<>> ELSE <<link>>

\* A store without the unique constraint: every insert is accepted.
UniqueConstraintOff(links, key) == TRUE

\* The store's unique constraint on Link.key, evaluated at insert time.
UniqueConstraintHolds(links, key) == \A i \in DOMAIN links : links[i].key # key

\* The record insertLink writes for one creation call.
LinkOf(id, key, dto, userId) ==
    [id |-> id, key |-> key, url |-> dto.url, password |-> dto.password,
     userId |-> userId, expirationTime |-> dto.expirationTime,
     temporary |-> dto.temporary, utm |-> dto.utm]

(***************************************************************************)
(* State.                                                                  *)
(***************************************************************************)
VARIABLES
    store,          \* the durable link store: links in insertion order
    now,            \* the server clock
    config,         \* AppConfigService.getConfig()
    req,            \* per request: inputs, position in its handler, response
    publishCalls,   \* calls of ShortenerProducer.publish, in call order
    errorLog,       \* AppLoggerService.error lines, in call order
    channel,        \* the ingestion channel: accepted events, oldest first
    dropLog,        \* the events the producer dropped, as its log shows them
    facts,          \* the durable click facts, in insertion order
    aq,             \* per analytics request: inputs and response
    listing,        \* the links GET /api/v1/links has for the dashboard's user
    page,           \* dashboard signal: the last page asked for
    total,          \* dashboard signal: the total of the last response
    filter,         \* dashboard signal: the filter text
    refetch,        \* dashboard signal: refetch requests since the last reset
    isLoadingData,  \* dashboard signal: the spinner
    linksMap,       \* dashboard signal: the links loaded, in insertion order
    linksArray,     \* the list as the component rendered it last
    wrapsProps,     \* the build reads the signals of prop expressions lazily
    propsRead,      \* idToDelete and qrLink as the component function read them
    taskDirty,      \* the fetch task is scheduled to run (again)
    fetches,        \* the fetches in flight: the page and filter each asked for
    errorToast,     \* the toaster has shown 'We could not load your links'
    lastLink,       \* the number of links the dashboard's user has created
    modal,          \* the link modal's form: its action and the action's status
    deleting,       \* the delete modal's form: idToDelete, its action, the status
    upload          \* the file upload: its position and the urls it submits

\* The producer's side of the ingestion pipeline.
ingest == <<channel, dropLog>>

\* The aggregator's side: the facts it reads and the requests it serves.
analytics == <<facts, aq>>

\* The dashboard page (part_002) and the listing it reads.
server == <<listing, lastLink>>
forms == <<modal, deleting, upload>>
component == <<wrapsProps, propsRead>>
dashboard == <<server, page, total, filter, refetch, isLoadingData, linksMap,
               linksArray, component, taskDirty, fetches, errorToast, forms>>

\* Everything on the server's side of the shortener and analytics endpoints.
backend == <<store, now, config, req, publishCalls, errorLog, ingest, analytics>>

vars == <<backend, dashboard>>

\* One call of createShortenedUrl / createUsersShortenedUrl, as the
\* controller awaits it.  allocate takes a well-formed requested key to the
\* insert; it has yet to refuse a requested key outside the format, or to
\* generate a key when none is requested.
NewEntry(dto, userId) ==
    [dto |-> dto, userId |-> userId,
     pc |-> IF dto.key = NoKey \/ ~CreateLinkInputSchemaKey(dto.key) THEN "allocate"
            ELSE "insert",
     key |-> dto.key, attempts |-> 0,
     error |-> Pending]

IdleReq ==
    [op |-> "none", pc |-> "idle", key |-> NoKey, password |-> NoPassword,
     dtos |-> <<>>, body |-> <<>>, user |-> NoUser, present |-> {}, lookup |-> "none",
     data |-> <<>>, pub |-> "none", entries |-> <<>>, attempts |-> 0,
     response |-> Pending]

\* An analytics request that has not arrived.
IdleQuery ==
    [endpoint |-> "none", key |-> NoKey, days |-> 0, userId |-> NoUserId,
     pc |-> "idle", link |-> <<>>, at |-> 0, asOf |-> 0, links |-> 0, issued |-> "",
     kind |-> "pending",
     url |-> "", total |-> 0, clicksOverTime |-> <<>>, data |-> {}]

\* part_002 line 29: the page size of the dashboard's link list.
limit == 10

\* The forms of the dashboard page with no submission under way.
IdleModal == [pc |-> "idle", status |-> 0]
IdleDeleting == [pc |-> "idle", idToDelete |-> 0, status |-> 0]
IdleUpload == [pc |-> "idle", urls |-> 0]

\* part_002 lines 27-47: the dashboard's signals as the component creates
\* them, with the fetch task scheduled for its first run; the user has one
\* full page of links, numbered from the oldest (1) to the newest.  The
\* page is built in one of two ways: see Renders.
InitDashboard ==
    /\ listing = 1..limit
    /\ lastLink = limit
    /\ modal = IdleModal
    /\ deleting = IdleDeleting
    /\ upload = IdleUpload
    /\ page = 1
    /\ total = 0
    /\ filter = ""
    /\ refetch = 0
    /\ isLoadingData = TRUE
    /\ linksMap = <<>>
    /\ linksArray = <<>>
    /\ wrapsProps \in BOOLEAN
    /\ propsRead = [idToDelete |-> 0, qrLink |-> 0]
    /\ taskDirty = TRUE
    /\ fetches = <<>>
    /\ errorToast = FALSE

\* The state after construction, with room for n requests.
InitWith(n) ==
    /\ InitDashboard
    /\ store = <<>>
    /\ now = 1
    /\ config \in [safeUrlEnable : BOOLEAN]
    /\ req = [r \in 1..n |-> IdleReq]
    /\ publishCalls = <<>>
    /\ errorLog = <<>>
    /\ channel = <<>>
    /\ dropLog = <<>>
    /\ facts = <<>>
    /\ aq = [a \in 1..MaxQueries |-> IdleQuery]

\* The backend is checked with the page as the optimizer builds it.
Init == InitWith(MaxReq) /\ wrapsProps

\* Key-allocation and resolution traffic use safe urls only, so the url
\* screening is left switched off there.
InitCreate == InitWith(MaxCreators) /\ ~config.safeUrlEnable /\ wrapsProps

InitResolve == Init /\ ~config.safeUrlEnable

InitFormat == InitWith(MaxBodies) /\ wrapsProps

\* The requests of the behaviour.
Req == DOMAIN req

\* Requests are numbered in order of arrival.
CanStart(r) == req[r].pc = "idle" /\ (IF r = 1 THEN TRUE ELSE req[r - 1].pc # "idle")

Done(q, response) == [q EXCEPT !.pc = "done", !.response = response]

Tick ==
    /\ now < MaxTime
    /\ now' = now + 1
    /\ UNCHANGED <<store, config, req, publishCalls, errorLog, ingest, analytics, dashboard>>

(***************************************************************************)
(* GET shortener/random -- ShortenerController.random                      *)
(***************************************************************************)
\* Lines 37-41: the request arrives and createRandomShortenedUrl is called;
\* the handler returns what that call returns.
Random(r, user) ==
    /\ CanStart(r)
    /\ req' = [req EXCEPT ![r] =
                  [IdleReq EXCEPT !.op = "random", !.user = user, !.pc = "random"]]
    /\ UNCHANGED <<store, now, config, publishCalls, errorLog, ingest, analytics, dashboard>>

\* createRandomShortenedUrl, as the design document describes allocation
\* without a requested key: a random candidate is checked against the store
\* and returned when it is free; nothing is stored.
RandomAllocate(r, candidate) ==
    /\ req[r].pc = "random"
    /\ req' = [req EXCEPT ![r] =
                  IF isKeyAvailable(store, candidate) THEN Done(@, OkKey(candidate))
                  ELSE IF @.attempts + 1 >= MaxAttempts
                       THEN Done([@ EXCEPT !.attempts = @ + 1], AllocationExhaustedError)
                       ELSE [@ EXCEPT !.attempts = @ + 1]]
    /\ UNCHANGED <<store, now, config, publishCalls, errorLog, ingest, analytics, dashboard>>

(***************************************************************************)
(* GET shortener/:key -- ShortenerController.findOne                       *)
(***************************************************************************)
\* findOne without the password gate of lines 56-58.
FindOneChecksNoGate(data, password) == IF data = <<>> THEN "notFound" ELSE "pass"

\* Lines 52-58: the null check and the password gate, on the link read.
FindOneChecks(data, password) ==
    IF data = <<>> THEN "notFound"
    ELSE IF data[1].password # NoPassword /\ ~verifyPassword(data[1].password, password)
         THEN "unauthorized"
         ELSE "pass"

\* The event of lines 61-66 without its `key: data.key` field.
ClickEventWithoutKey(r, data) == [rid |-> r, key |-> NoKey, url |-> data[1].url]

\* Lines 61-66: the event handed to the producer.
ClickEvent(r, data) == [rid |-> r, key |-> data[1].key, url |-> data[1].url]

\* findOne returning the destination as stored, without the UTM parameters.
LinkResponseWithoutUtm(data) == OkLink(data[1].url, data[1].key)

\* Lines 71-74: the value findOne returns.
LinkResponse(data) == OkLink(addUtmParams(data[1].url, data[1].utm), data[1].key)

\* findOne without the try/catch of lines 60-69: a rejection reaches the caller.
FindOneAfterPublishUncaught(data, outcome) ==
    IF outcome # "resolved" THEN InternalServerError ELSE LinkResponse(data)

\* Lines 60-74: what the caller receives once publish has settled.  The
\* catch block absorbs the error publish threw.  Line 68 reads the message
\* of what was thrown: a rejection that carries no value at all (undefined
\* or null) makes that read throw out of the catch block, and the caller
\* sees a 500.
FindOneAfterPublish(data, outcome) ==
    IF outcome = "rejectedWithoutReason" THEN InternalServerError ELSE LinkResponse(data)

\* How the lookup ended, recorded to state properties over finished requests.
LookupKind(links, time, key) ==
    IF \A i \in DOMAIN links : links[i].key # key THEN "absent"
    ELSE IF \A i \in DOMAIN links : links[i].key = key => IsExpired(links[i], time)
         THEN "expired"
         ELSE "live"

\* Lines 44-50: the request arrives and getLink is called; the handler
\* awaits its promise.
FindOne(r, key, password) ==
    /\ CanStart(r)
    /\ req' = [req EXCEPT ![r] =
                  [IdleReq EXCEPT !.op = "findOne", !.key = key, !.password = password,
                                  !.pc = "getLink"]]
    /\ UNCHANGED <<store, now, config, publishCalls, errorLog, ingest, analytics, dashboard>>

\* Lines 50-56: getLink reads the store; a miss is refused, a link with a
\* password goes on to verifyPassword, any other link to publish.
FindOneGetLink(r) ==
    /\ req[r].pc = "getLink"
    /\ LET data == getLink(store, now, req[r].key)
           q == [req[r] EXCEPT !.data = data,
                               !.lookup = LookupKind(store, now, req[r].key)]
       IN req' = [req EXCEPT ![r] =
                     IF data = <<>> THEN Done(q, NotFoundError)
                     ELSE IF data[1].password # NoPassword
                          THEN [q EXCEPT !.pc = "verifyPassword"]
                          ELSE [q EXCEPT !.pc = "publish"]]
    /\ UNCHANGED <<store, now, config, publishCalls, errorLog, ingest, analytics, dashboard>>

\* Lines 56-58: verifyPassword settles; a password that does not verify is
\* refused.
FindOneVerifyPassword(r) ==
    /\ req[r].pc = "verifyPassword"
    /\ req' = [req EXCEPT ![r] =
                  IF FindOneChecks(@.data, @.password) = "unauthorized"
                  THEN Done(@, UnauthorizedError)
                  ELSE [@ EXCEPT !.pc = "publish"]]
    /\ UNCHANGED <<store, now, config, publishCalls, errorLog, ingest, analytics, dashboard>>

\* A producer without backpressure: every event is accepted.
ProducerAcceptsAlways(ch) == TRUE

\* ShortenerProducer.publish, as the design document describes it: a
\* non-blocking enqueue onto a bounded channel that drops the event, and
\* logs the drop, when the channel is full.
ProducerAccepts(ch) == Len(ch) < ChannelCapacity

Enqueue(ch, event) == IF ProducerAccepts(ch) THEN Append(ch, event) ELSE ch

\* Line 61: publish is called; the handler awaits its promise.
FindOnePublish(r) ==
    /\ req[r].pc = "publish"
    /\ publishCalls' = Append(publishCalls, ClickEvent(r, req[r].data))
    /\ channel' = Enqueue(channel, ClickEvent(r, req[r].data))
    /\ dropLog' = IF ProducerAccepts(channel) THEN dropLog
                  ELSE Append(dropLog, ClickEvent(r, req[r].data))
    /\ req' = [req EXCEPT ![r].pc = "awaitPublish", ![r].pub = "pending"]
    /\ UNCHANGED <<store, now, config, errorLog, analytics, dashboard>>

\* findOne with a catch block that calls publish again (once) after a rejection.
FindOnePublishSettledRetrying(r, outcome) ==
    /\ req[r].pc = "awaitPublish"
    /\ LET retry == outcome = "rejected"
                     /\ Cardinality({i \in DOMAIN publishCalls : publishCalls[i].rid = r}) < 2
       IN req' = [req EXCEPT ![r] =
                     IF retry THEN [@ EXCEPT !.pub = outcome, !.pc = "publish"]
                     ELSE Done([@ EXCEPT !.pub = outcome], FindOneAfterPublish(@.data, outcome))]
    /\ errorLog' = IF outcome = "rejected"
                   THEN Append(errorLog, [rid |-> r,
                            message |-> "Error while publishing shortened url: broker down"])
                   ELSE errorLog
    /\ UNCHANGED <<store, now, config, publishCalls, ingest, analytics, dashboard>>

\* Lines 60-74: the promise settles; the error of a rejection is logged
\* with its message (nothing is logged for a rejection without a value,
\* where line 68 throws), and findOne returns or throws.
FindOnePublishSettled(r, outcome) ==
    /\ req[r].pc = "awaitPublish"
    /\ req' = [req EXCEPT ![r] =
                  Done([@ EXCEPT !.pub = outcome], FindOneAfterPublish(@.data, outcome))]
    /\ errorLog' = IF outcome = "rejected"
                   THEN Append(errorLog, [rid |-> r,
                            message |-> "Error while publishing shortened url: broker down"])
                   ELSE errorLog
    /\ UNCHANGED <<store, now, config, publishCalls, ingest, analytics, dashboard>>

(***************************************************************************)
(* POST shortener -- ShortenerController.shortener                         *)
(***************************************************************************)
\* The validation pipe on the ShortenerDto body.
ShortenerDtoValid(dto) ==
    /\ IsUrl(dto.url)
    /\ IsOptional(dto, "key") \/ ShortenerDtoKeyValid(dto.key)
    /\ IsOptional(dto, "expirationTime") \/ IsPositive(dto.expirationTime)
    /\ \A f \in UtmNames : Len(dto.utm[f]) <= MaxUtmLength

\* The 400 of the validation pipe, by the first field that fails.
ValidationError(dto) ==
    IF ~IsUrl(dto.url) THEN InvalidUrlError
    ELSE IF ~(IsOptional(dto, "key") \/ ShortenerDtoKeyValid(dto.key))
         THEN InvalidKeyFormatError
    ELSE IF ~(IsOptional(dto, "expirationTime") \/ IsPositive(dto.expirationTime))
         THEN InvalidExpirationTimeError
    ELSE InvalidUtmError

\* Lines 98-100: the temporary branch drops the password from the dto.
TemporaryRest(dto) == [dto EXCEPT !.password = NoPassword]

\* Lines 109-111: the password is replaced by its hash when present.
HashedDto(dto) ==
    IF dto.password # NoPassword
    THEN [dto EXCEPT !.password = hashPassword(dto.password)]
    ELSE dto

\* shortener without the availability check of lines 90-95.
KeyCheckSkipped(links, dto) == FALSE

\* Lines 90-95: a requested key that is not available is refused.
KeyCheckFails(links, dto) == dto.key # NoKey /\ ~isKeyAvailable(links, dto.key)

\* Indexes of the entries whose requested key is in the store on arrival.
PresentOnArrival(links, dtos) ==
    {i \in DOMAIN dtos : dtos[i].key # NoKey /\ ~isKeyAvailable(links, dtos[i].key)}

\* shortener turning a failure of the service call into an untyped error.
ShortenerResultUntyped(entry) ==
    IF entry.pc = "failed" THEN InternalServerError
    ELSE IF entry.pc = "done" THEN OkKey(entry.key)
    ELSE Pending

\* Lines 100 and 119: shortener returns what the service call returns.
ShortenerResult(entry) ==
    IF entry.pc = "failed" THEN entry.error
    ELSE IF entry.pc = "done" THEN OkKey(entry.key)
    ELSE Pending

\* Lines 143-145: Promise.all rejects with the first rejection, and
\* otherwise yields the keys in input order.
BulkResult(entries) ==
    IF \E i \in DOMAIN entries : entries[i].pc = "failed"
    THEN entries[CHOOSE i \in DOMAIN entries : entries[i].pc = "failed"].error
    ELSE IF \A i \in DOMAIN entries : entries[i].pc = "done"
         THEN OkKeys([i \in DOMAIN entries |-> entries[i].key])
         ELSE Pending

\* The request after one of its service calls has moved: the response is
\* sent once, when the handler's promise first settles.
Settled(q, entries) ==
    LET result == IF q.op = "shortener" THEN ShortenerResult(entries[1])
                  ELSE BulkResult(entries)
    IN IF q.response # Pending THEN [q EXCEPT !.entries = entries]
       ELSE IF result = Pending THEN [q EXCEPT !.entries = entries]
       ELSE [q EXCEPT !.entries = entries, !.pc = "done", !.response = result]

\* The service call is under way; the handler awaits it.
Calling(q, entries) == Settled([q EXCEPT !.pc = "create"], entries)

\* shortener without the verified check of lines 104-106.
ShortenerAfterKeyCheckAnyCaller(q) ==
    LET dto == q.body[1] IN
    IF dto.temporary
    THEN Calling(q, <<NewEntry(TemporaryRest(dto), NoUserId)>>)
    ELSE IF dto.password # NoPassword THEN [q EXCEPT !.pc = "hashPassword"]
    ELSE [q EXCEPT !.pc = "isEligibleToCreateLink"]

\* shortener going on with a dto that has lost its requested key.
ShortenerAfterKeyCheckLosingKey(q) ==
    LET dto == [q.body[1] EXCEPT !.key = NoKey] IN
    IF dto.temporary
    THEN Calling(q, <<NewEntry(TemporaryRest(dto), NoUserId)>>)
    ELSE IF ~q.user.verified THEN Done(q, NotVerifiedError)
    ELSE IF dto.password # NoPassword
         THEN [q EXCEPT !.pc = "hashPassword", !.body = <<dto>>]
    ELSE [q EXCEPT !.pc = "isEligibleToCreateLink", !.body = <<dto>>]

\* Lines 97-113: from the key check to the next await: the temporary
\* branch calls the service, an unverified caller is refused, a password
\* goes to hashPassword, anything else to isEligibleToCreateLink.
ShortenerAfterKeyCheck(q) ==
    LET dto == q.body[1] IN
    IF dto.temporary
    THEN Calling(q, <<NewEntry(TemporaryRest(dto), NoUserId)>>)
    ELSE IF ~q.user.verified THEN Done(q, NotVerifiedError)
    ELSE IF dto.password # NoPassword THEN [q EXCEPT !.pc = "hashPassword"]
    ELSE [q EXCEPT !.pc = "isEligibleToCreateLink"]

\* Lines 90-91: a requested key goes to isKeyAvailable.
ShortenerAfterSafeUrl(q) ==
    IF q.body[1].key # NoKey THEN [q EXCEPT !.pc = "isKeyAvailable"]
    ELSE ShortenerAfterKeyCheck(q)

\* Lines 79-84: the body is validated and the handler runs to its first
\* await.
Shortener(r, dto, user) ==
    /\ CanStart(r)
    /\ LET q == [IdleReq EXCEPT !.op = "shortener", !.dtos = <<dto>>, !.body = <<dto>>,
                                !.user = user,
                                !.present = PresentOnArrival(store, <<dto>>)]
       IN req' = [req EXCEPT ![r] =
                     IF ~ShortenerDtoValid(dto) THEN Done(q, ValidationError(dto))
                     ELSE IF config.safeUrlEnable THEN [q EXCEPT !.pc = "isSafeUrl"]
                     ELSE ShortenerAfterSafeUrl(q)]
    /\ UNCHANGED <<store, now, config, publishCalls, errorLog, ingest, analytics, dashboard>>

\* Lines 84-88: isSafeUrl settles.
ShortenerSafeUrlChecked(r) ==
    /\ req[r].op = "shortener"
    /\ req[r].pc = "isSafeUrl"
    /\ req' = [req EXCEPT ![r] =
                  IF ~isSafeUrl(@.body[1].url) THEN Done(@, UnsafeUrlError)
                  ELSE ShortenerAfterSafeUrl(@)]
    /\ UNCHANGED <<store, now, config, publishCalls, errorLog, ingest, analytics, dashboard>>

\* Lines 91-95: isKeyAvailable reads the store.
ShortenerKeyChecked(r) ==
    /\ req[r].pc = "isKeyAvailable"
    /\ req' = [req EXCEPT ![r] =
                  IF KeyCheckFails(store, @.body[1]) THEN Done(@, KeyConflictError)
                  ELSE ShortenerAfterKeyCheck(@)]
    /\ UNCHANGED <<store, now, config, publishCalls, errorLog, ingest, analytics, dashboard>>

\* Lines 109-113: hashPassword settles and the dto's password is replaced.
ShortenerPasswordHashed(r) ==
    /\ req[r].pc = "hashPassword"
    /\ req' = [req EXCEPT ![r] =
                  [@ EXCEPT !.pc = "isEligibleToCreateLink",
                            !.body = <<HashedDto(@[1])>>]]
    /\ UNCHANGED <<store, now, config, publishCalls, errorLog, ingest, analytics, dashboard>>

\* Lines 113-119: isEligibleToCreateLink settles; the service is called.
ShortenerEligibilityChecked(r) ==
    /\ req[r].pc = "isEligibleToCreateLink"
    /\ req' = [req EXCEPT ![r] =
                  IF ~isEligibleToCreateLink(@.user.id) THEN Done(@, LimitError)
                  ELSE Calling(@, <<NewEntry(@.body[1], @.user.id)>>)]
    /\ UNCHANGED <<store, now, config, publishCalls, errorLog, ingest, analytics, dashboard>>

(***************************************************************************)
(* POST shortener/bulk -- ShortenerController.bulk                         *)
(***************************************************************************)
\* Lines 136-145: the verified check, then one createUsersShortenedUrl call
\* per entry, all started together; an empty body has nothing to wait for.
BulkAfterSafeUrl(q) ==
    IF ~q.user.verified THEN Done(q, NotVerifiedError)
    ELSE IF q.dtos = <<>> THEN Done(q, OkKeys(<<>>))
    ELSE Calling(q, [i \in DOMAIN q.dtos |-> NewEntry(q.dtos[i], q.user.id)])

\* Lines 124-129: the handler runs to its first await; the entries of the
\* array are not validated.
Bulk(r, dtos, user) ==
    /\ CanStart(r)
    /\ LET q == [IdleReq EXCEPT !.op = "bulk", !.dtos = dtos, !.body = dtos,
                                !.user = user,
                                !.present = PresentOnArrival(store, dtos)]
       IN req' = [req EXCEPT ![r] =
                     IF config.safeUrlEnable THEN [q EXCEPT !.pc = "isSafeUrl"]
                     ELSE BulkAfterSafeUrl(q)]
    /\ UNCHANGED <<store, now, config, publishCalls, errorLog, ingest, analytics, dashboard>>

\* Lines 129-134: every isSafeUrl of the body has settled.
BulkSafeUrlChecked(r) ==
    /\ req[r].op = "bulk"
    /\ req[r].pc = "isSafeUrl"
    /\ req' = [req EXCEPT ![r] =
                  IF \E i \in DOMAIN @.dtos : ~isSafeUrl(@.dtos[i].url)
                  THEN Done(@, UnsafeUrlError)
                  ELSE BulkAfterSafeUrl(@)]
    /\ UNCHANGED <<store, now, config, publishCalls, errorLog, ingest, analytics, dashboard>>

(***************************************************************************)
(* ShortenerService.createShortenedUrl / createUsersShortenedUrl: key      *)
(* allocation, then the insert, as two steps (the check and the insert are *)
(* not atomic).                                                            *)
(***************************************************************************)
\* allocate(): a requested key outside the format is refused
\* (InvalidKeyFormat); without a requested key, one random candidate per
\* attempt.
EntryAllocate(r, i, candidate) ==
    /\ i \in DOMAIN req[r].entries
    /\ req[r].entries[i].pc = "allocate"
    /\ LET e == req[r].entries[i]
           e2 == IF e.key # NoKey
                 THEN [e EXCEPT !.pc = "failed", !.error = InvalidKeyFormatError]
                 ELSE IF isKeyAvailable(store, candidate)
                 THEN [e EXCEPT !.key = candidate, !.pc = "insert"]
                 ELSE IF e.attempts + 1 >= MaxAttempts
                      THEN [e EXCEPT !.attempts = @ + 1, !.pc = "failed",
                                     !.error = AllocationExhaustedError]
                      ELSE [e EXCEPT !.attempts = @ + 1]
       IN req' = [req EXCEPT ![r] = Settled(@, [@.entries EXCEPT ![i] = e2])]
    /\ UNCHANGED <<store, now, config, publishCalls, errorLog, ingest, analytics, dashboard>>

\* insertLink: fails on a uniqueness violation, surfaced as KeyConflict.
EntryInsert(r, i) ==
    /\ i \in DOMAIN req[r].entries
    /\ req[r].entries[i].pc = "insert"
    /\ LET e == req[r].entries[i]
           ok == UniqueConstraintHolds(store, e.key)
           e2 == IF ok THEN [e EXCEPT !.pc = "done"]
                 ELSE [e EXCEPT !.pc = "failed", !.error = KeyConflictError]
       IN /\ store' = IF ok THEN Append(store, LinkOf(<<r, i>>, e.key, e.dto, e.userId))
                      ELSE store
          /\ req' = [req EXCEPT ![r] = Settled(@, [@.entries EXCEPT ![i] = e2])]
    /\ UNCHANGED <<now, config, publishCalls, errorLog, ingest, analytics, dashboard>>

(***************************************************************************)
(* Inputs.  Two families of requests are explored: resolution traffic over *)
(* a few seeded links, and creation traffic over every kind of body.       *)
(***************************************************************************)
\* How the promise of publish settles: the event was handed over (accepted
\* or dropped), or publish threw an error.  The producer fails with the
\* error that made it fail; it never rejects without a value.
PublishOutcomes == {"resolved", "rejected"}

\* link-modal.tsx lines 136-142: the dashboard's form sends a UTM field only
\* when the UTM builder is switched on and the field is not empty.
useCreateLinkUtm(utmBuilderToggle, form) ==
    [f \in UtmNames |-> IF utmBuilderToggle /\ form[f] # "" THEN form[f] ELSE ""]

\* A filled-in UTM builder: source and campaign given, the other fields empty.
FormUtm == [NoUtm EXCEPT !["utm_source"] = "x", !["utm_campaign"] = "c"]

\* Candidates of the random key generator; one of them can also be requested.
GenCandidates == {KeyAbcd, KeyGen}

\* Resolutions: of the seeded key without a password, with the right and
\* with a wrong one, and of a key that was never created.
ResolveInputs == {<<KeyAbcd, "">>, <<KeyAbcd, "p1">>, <<KeyAbcd, "p2">>, <<KeyDash, "">>}
SeedDtos ==
    {[BaseDto EXCEPT !.key = KeyAbcd],
     [BaseDto EXCEPT !.key = KeyAbcd, !.password = "p1"],
     [BaseDto EXCEPT !.key = KeyAbcd, !.expirationTime = 1],
     [BaseDto EXCEPT !.key = KeyAbcd, !.utm = useCreateLinkUtm(TRUE, FormUtm)],
     [BaseDto EXCEPT !.key = KeyAbcd, !.utm = useCreateLinkUtm(FALSE, FormUtm)]}
SeedBulks == {<<[BaseDto EXCEPT !.key = KeyAbcd, !.password = "p1"]>>}

\* Bodies and callers of POST shortener and POST shortener/bulk when the
\* allocation of keys is explored.
CreateInputs ==
    {<<BaseDto, UserVerified>>,
     <<[BaseDto EXCEPT !.key = KeyAbcd], UserVerified>>,
     <<[BaseDto EXCEPT !.key = KeyAbcd, !.temporary = TRUE], NoUser>>}
BulkInputs ==
    {<<[i \in 1..n |-> [BaseDto EXCEPT !.key = KeyAbcd]], UserVerified>> : n \in 1..MaxBulk}
        \cup {<<(<<BaseDto, [BaseDto EXCEPT !.key = KeyAbcd]>>), UserVerified>>}

\* Bodies and callers when the validation of a body is explored.
FormatInputs ==
    {<<[BaseDto EXCEPT !.key = KeyBadChar], UserVerified>>,
     <<[BaseDto EXCEPT !.key = KeyShort], UserVerified>>,
     <<[BaseDto EXCEPT !.key = KeyLong], UserVerified>>,
     <<[BaseDto EXCEPT !.key = KeyDash], UserVerified>>,
     <<[BaseDto EXCEPT !.key = KeyAbcd, !.password = "p1"], UserVerified>>,
     <<[BaseDto EXCEPT !.key = KeyAbcd, !.password = "p1", !.temporary = TRUE], NoUser>>,
     <<[BaseDto EXCEPT !.key = KeyDash, !.password = "p1", !.temporary = TRUE],
       UserVerified>>,
     <<[BaseDto EXCEPT !.key = KeyAbcd], NoUser>>,
     <<[BaseDto EXCEPT !.key = KeyAbcd], UserAtLimit>>,
     <<[BaseDto EXCEPT !.key = KeyAbcd, !.url = UrlUnsafe], UserVerified>>,
     <<[BaseDto EXCEPT !.key = KeyDash, !.url = UrlMalformed], UserVerified>>,
     <<[BaseDto EXCEPT !.key = KeyDash, !.url = UrlNoProtocol], UserVerified>>,
     <<[BaseDto EXCEPT !.sent = {"key"}], UserVerified>>,
     <<[BaseDto EXCEPT !.key = KeyDash, !.expirationTime = -1], UserVerified>>,
     <<[BaseDto EXCEPT !.key = KeyDash, !.sent = {"expirationTime"}], UserVerified>>,
     <<[BaseDto EXCEPT !.key = KeyDash, !.utm = [NoUtm EXCEPT !["utm_term"] = UtmTooLong]],
       UserVerified>>}
FormatBulks ==
    {<<(<<[BaseDto EXCEPT !.key = KeyAbcd, !.password = "p1", !.temporary = TRUE]>>),
       UserVerified>>,
     <<(<<[BaseDto EXCEPT !.key = KeyBadChar]>>), UserVerified>>,
     <<(<<[BaseDto EXCEPT !.key = KeyAbcd]>>), UserUnverified>>,
     <<(<<[BaseDto EXCEPT !.key = KeyAbcd]>>), UserAtLimit>>,
     <<(<<[BaseDto EXCEPT !.key = KeyAbcd, !.url = UrlUnsafe]>>), UserVerified>>,
     <<(<<>>), UserVerified>>}

(***************************************************************************)
(* Resolution traffic: the first request may seed the store with a link,   *)
(* the others (or all of them) are resolutions.                            *)
(***************************************************************************)
NextResolve ==
    \/ Tick
    \/ \E dto \in SeedDtos : Shortener(1, dto, UserVerified)
    \/ ShortenerKeyChecked(1)
    \/ ShortenerPasswordHashed(1)
    \/ ShortenerEligibilityChecked(1)
    \/ \E dtos \in SeedBulks : Bulk(1, dtos, UserVerified)
    \/ \E i \in 1..MaxBulk : EntryInsert(1, i)
    \/ \E r \in 1..MaxReq :
        \/ \E in \in ResolveInputs : FindOne(r, in[1], in[2])
        \/ FindOneGetLink(r)
        \/ FindOneVerifyPassword(r)
        \/ FindOnePublish(r)
        \/ \E outcome \in PublishOutcomes : FindOnePublishSettled(r, outcome)

SpecResolve == InitResolve /\ [][NextResolve]_vars

(***************************************************************************)
(* Creation traffic: requested and generated keys, single and bulk.        *)
(***************************************************************************)
NextCreate ==
    \E r \in 1..MaxCreators :
        \/ \E in \in CreateInputs : Shortener(r, in[1], in[2])
        \/ ShortenerKeyChecked(r)
        \/ ShortenerEligibilityChecked(r)
        \/ \E in \in BulkInputs : Bulk(r, in[1], in[2])
        \/ \E i \in 1..MaxBulk, candidate \in GenCandidates : EntryAllocate(r, i, candidate)
        \/ \E i \in 1..MaxBulk : EntryInsert(r, i)

SpecCreate == InitCreate /\ [][NextCreate]_vars

(***************************************************************************)
(* Creation traffic: every kind of body and caller.                        *)
(***************************************************************************)
NextFormat ==
    \E r \in 1..MaxBodies :
        \/ \E in \in FormatInputs : Shortener(r, in[1], in[2])
        \/ ShortenerSafeUrlChecked(r)
        \/ ShortenerKeyChecked(r)
        \/ ShortenerPasswordHashed(r)
        \/ ShortenerEligibilityChecked(r)
        \/ \E in \in FormatBulks : Bulk(r, in[1], in[2])
        \/ BulkSafeUrlChecked(r)
        \/ Random(r, UserUnverified)
        \/ \E candidate \in GenCandidates : RandomAllocate(r, candidate)
        \/ \E i \in 1..MaxBulk, candidate \in GenCandidates : EntryAllocate(r, i, candidate)
        \/ \E i \in 1..MaxBulk : EntryInsert(r, i)

SpecFormat == InitFormat /\ [][NextFormat]_vars

(***************************************************************************)
(* AnalyticsController (analytics.controller.ts) over the durable click    *)
(* facts.  AnalyticsService and the consumer that persists the facts are   *)
(* not part of the sources at hand and are modelled from the design        *)
(* document.                                                               *)
(***************************************************************************)
\* What enrichment makes of the two kinds of client seen in the model.
FactProfiles ==
    {[device |-> "desktop", os |-> "linux", browser |-> "firefox",
      country |-> "de", region |-> "be", city |-> "berlin"],
     [device |-> "mobile", os |-> "android", browser |-> "chrome",
      country |-> "unknown", region |-> "unknown", city |-> "unknown"]}

\* The fact the consumer persists for one click on a link.
FactOf(linkId, day, profile) ==
    [linkId |-> linkId, day |-> day, device |-> profile.device, os |-> profile.os,
     browser |-> profile.browser, country |-> profile.country,
     region |-> profile.region, city |-> profile.city]

\* The calendar days of a window of `days` days that ends today.
WindowDays(time, days) == (time - days + 1)..time

FactsOfLink(fs, linkId) == {j \in DOMAIN fs : fs[j].linkId = linkId}

\* totalVisits(): the number of facts of all links.
getTotalVisits(fs) == Len(fs)

\* totalVisits(linkKey): the number of facts of the user's link with that key.
getTotalVisitsByKey(fs, links, key, userId) ==
    Cardinality({j \in DOMAIN fs :
                    \E i \in DOMAIN links : /\ links[i].id = fs[j].linkId
                                             /\ links[i].key = key
                                             /\ links[i].userId = userId})

\* clicksOverTime without zero-filling: only the days that have facts.
getClicksOverTimeSparse(fs, linkId, days, time) ==
    LET hit == {d \in WindowDays(time, days) :
                   \E j \in FactsOfLink(fs, linkId) : fs[j].day = d}
        RECURSIVE rows(_)
        rows(ds) == IF ds = {} THEN <<>>
                    ELSE LET d == CHOOSE x \in ds : \A y \in ds : x <= y
                         IN <<[day |-> d,
                               count |-> Cardinality({j \in FactsOfLink(fs, linkId) :
                                                         fs[j].day = d})]>>
                            \o rows(ds \ {d})
    IN rows(hit)

\* clicksOverTime(linkKey, days): one entry per day of the window, oldest
\* first, with the number of the link's facts of that day.
getClicksOverTime(fs, linkId, days, time) ==
    [i \in 1..days |->
        LET d == time - days + i
        IN [day |-> d,
            count |-> Cardinality({j \in FactsOfLink(fs, linkId) : fs[j].day = d})]]

\* groupedByField(linkKey, dimension, days, include?): one row per value of
\* the dimension among the link's facts of the window, with its count; the
\* rows carry the country too when `include` asks for it.
getGroupedByField(fs, linkId, field, days, time, include) ==
    LET inWindow == {j \in FactsOfLink(fs, linkId) : fs[j].day \in WindowDays(time, days)}
        groups == {<<fs[j][field], IF include THEN fs[j].country ELSE "">> : j \in inWindow}
    IN {[value |-> g[1], country |-> g[2],
         count |-> Cardinality({j \in inWindow :
                                   /\ fs[j][field] = g[1]
                                   /\ include => fs[j].country = g[2]})] : g \in groups}

\* findLink with a `where` that leaves out the owner.
findLinkOfAnyOwner(links, key, userId) ==
    LET hits == {i \in DOMAIN links : links[i].key = key}
    IN IF hits = {} THEN <<>>
       ELSE LET link == links[CHOOSE i \in hits : TRUE]
            IN <<[id |-> link.id, url |-> link.url]>>

\* Lines 63-74: the link with that key owned by the user, or null.
findLink(links, key, userId) ==
    LET hits == {i \in DOMAIN links : links[i].key = key /\ links[i].userId = userId}
    IN IF hits = {} THEN <<>>
       ELSE LET link == links[CHOOSE i \in hits : TRUE]
            IN <<[id |-> link.id, url |-> link.url]>>

\* An analytics endpoint that records its own request as a click.
AfterAnalyticsCountingItself(fs, time) ==
    Append(fs, FactOf(<<0, 0>>, time, CHOOSE pr \in FactProfiles : pr.device = "desktop"))

\* Lines 14-80: the facts after an analytics request; no handler writes.
AfterAnalytics(fs, time) == fs

\* Analytics requests are numbered in order of arrival.
CanAsk(a) == aq[a].endpoint = "none" /\ (IF a = 1 THEN TRUE ELSE aq[a - 1].endpoint # "none")

\* The request as it arrives at a handler that looks its link up first.
Asked(endpoint, key, days, userId) ==
    [IdleQuery EXCEPT !.endpoint = endpoint, !.key = key, !.days = days,
                      !.userId = userId, !.pc = "findLink"]

\* The request when the link table is read: how many links were stored.
LinksRead(q) == [q EXCEPT !.links = Len(store)]

\* The request when the facts are read: the day, and how many facts were
\* stored.
FactsRead(q) == [q EXCEPT !.at = now, !.asOf = Len(facts)]

\* The handler moves to q.
Answer(a, q) ==
    /\ aq' = [aq EXCEPT ![a] = q]
    /\ facts' = AfterAnalytics(facts, now)
    /\ UNCHANGED <<store, now, config, req, publishCalls, errorLog, ingest, dashboard>>

\* Lines 69-71: findLink throws.
LinkNotFound(q) == [q EXCEPT !.kind = "NotFoundException", !.pc = "done"]

\* Lines 14-17: GET analytics/total-clicks.
GetTotalVisits(a) ==
    /\ CanAsk(a)
    /\ Answer(a, [FactsRead(LinksRead(Asked("total-clicks", NoKey, 0, NoUserId))) EXCEPT
                      !.pc = "done", !.kind = "ok", !.issued = "getTotalVisits",
                      !.total = getTotalVisits(facts)])

\* Lines 19-21: GET analytics/:key arrives and calls findLink.
GetAnalytics(a, key, days, userId) ==
    /\ CanAsk(a)
    /\ Answer(a, Asked("clicks", key, days, userId))

\* Lines 26-56 and 76-77: GET analytics/:key/devices, os, browsers,
\* countries, regions and cities arrive, all through getGroupedData, which
\* calls findLink.
GetGroupedData(a, key, days, userId, field) ==
    /\ CanAsk(a)
    /\ Answer(a, Asked(field, key, days, userId))

\* Lines 21, 77 and 63-74: findLink reads the link table.
AnalyticsFindLink(a) ==
    /\ aq[a].pc = "findLink"
    /\ LET q == LinksRead(aq[a])
           link == findLink(store, q.key, q.userId)
       IN Answer(a, IF link = <<>> THEN LinkNotFound(q)
                    ELSE [q EXCEPT !.link = link, !.pc = "aggregate"])

\* Lines 22-23 and 78-79: the aggregation reads the facts; the handler
\* returns the link's url with the result.
AnalyticsAggregate(a) ==
    /\ aq[a].pc = "aggregate"
    /\ LET q == FactsRead(aq[a])
           link == q.link[1]
       IN Answer(a, IF q.endpoint = "clicks"
                    THEN [q EXCEPT !.pc = "done", !.kind = "ok", !.url = link.url,
                                   !.issued = "getClicksOverTime",
                                   !.clicksOverTime =
                                       getClicksOverTime(facts, link.id, q.days, now)]
                    ELSE [q EXCEPT !.pc = "done", !.kind = "ok", !.url = link.url,
                                   !.issued = "getGroupedByField",
                                   !.data = getGroupedByField(facts, link.id, q.endpoint,
                                                              q.days, now,
                                                              q.endpoint = "city")])

\* Lines 58-61: GET analytics/:key/total.
GetTotalVisitsForLink(a, key, userId) ==
    /\ CanAsk(a)
    /\ Answer(a, [FactsRead(LinksRead(Asked("total", key, 0, userId))) EXCEPT
                      !.pc = "done", !.kind = "ok", !.issued = "getTotalVisitsByKey",
                      !.total = getTotalVisitsByKey(facts, store, key, userId)])

\* The clicks of a behaviour come alternately from a desktop and from a
\* mobile client.
ClientOf(n) == IF n % 2 = 1 THEN "desktop" ELSE "mobile"

\* The consumer persists the fact of one click on a stored link.
ConsumerPersist(k, profile) ==
    /\ k \in DOMAIN store
    /\ Len(facts) < MaxFacts
    /\ profile.device = ClientOf(Len(facts) + 1)
    /\ facts' = Append(facts, FactOf(store[k].id, now, profile))
    /\ UNCHANGED <<store, now, config, req, publishCalls, errorLog, ingest, aq, dashboard>>

\* Midnight: the next calendar day begins.
NextDay ==
    /\ now < MaxDay
    /\ now' = now + 1
    /\ UNCHANGED <<store, config, req, publishCalls, errorLog, ingest, analytics, dashboard>>

\* Requests to the key's time series and total: by the owner over a long
\* and a short window, and by another user.
AnalyticsInputs ==
    {<<KeyAbcd, 7, UserVerified.id>>, <<KeyAbcd, 1, UserVerified.id>>,
     <<KeyAbcd, 7, UserAtLimit.id>>}

\* Requests to the groupings: every dimension by the owner, the device
\* dimension also over a short window and by another user.
GroupedInputs ==
    {<<KeyAbcd, 7, UserVerified.id, field>> :
        field \in {"device", "os", "browser", "country", "region", "city"}}
    \cup {<<KeyAbcd, 1, UserVerified.id, "device">>,
          <<KeyAbcd, 7, UserAtLimit.id, "device">>}

\* The analytics calendar starts with an empty store and no facts.
InitAnalytics == InitWith(1) /\ ~config.safeUrlEnable /\ wrapsProps

NextAnalytics ==
    \/ NextDay
    \/ Shortener(1, [BaseDto EXCEPT !.key = KeyAbcd], UserVerified)
    \/ ShortenerKeyChecked(1)
    \/ ShortenerEligibilityChecked(1)
    \/ EntryInsert(1, 1)
    \/ \E k \in 1..1, profile \in FactProfiles : ConsumerPersist(k, profile)
    \/ \E a \in 1..MaxQueries :
        \/ GetTotalVisits(a)
        \/ \E in \in AnalyticsInputs : GetAnalytics(a, in[1], in[2], in[3])
        \/ \E in \in GroupedInputs : GetGroupedData(a, in[1], in[2], in[3], in[4])
        \/ AnalyticsFindLink(a)
        \/ AnalyticsAggregate(a)
        \/ \E in \in AnalyticsInputs : GetTotalVisitsForLink(a, in[1], in[3])

SpecAnalytics == InitAnalytics /\ [][NextAnalytics]_vars

(***************************************************************************)
(* Properties of resolution (checked under SpecResolve).                   *)
(***************************************************************************)
\* The publish calls a request has issued.
CallsOf(r) == {i \in DOMAIN publishCalls : publishCalls[i].rid = r}

\* The request got past the gates of findOne and, if it has returned, it
\* returned the link's destination and key.
Resolved(r, link) ==
    \/ req[r].pc \in {"publish", "awaitPublish"}
    \/ /\ req[r].pc = "done"
       /\ req[r].response.kind = "ok"
       /\ req[r].response.url = addUtmParams(link.url, link.utm)
       /\ req[r].response.key = link.key

\* C1: once publish has settled for a resolve that passed the existence and
\* password checks, the caller has received {url, key} of the link that was
\* read, whether publish resolved or rejected; a rejection is in the error
\* log and never in the response.
C1_PublishFailureKeepsOutcome ==
    \A r \in Req :
        (req[r].op = "findOne" /\ req[r].pub \in PublishOutcomes) =>
            /\ req[r].pc = "done"
            /\ req[r].data # <<>>
            /\ req[r].data[1] \in Range(store)
            /\ req[r].response.kind = "ok"
            /\ req[r].response.url = addUtmParams(req[r].data[1].url, req[r].data[1].utm)
            /\ req[r].response.key = req[r].data[1].key
            /\ (req[r].pub = "rejected" => \E i \in DOMAIN errorLog : errorLog[i].rid = r)

\* A resolve whose publish call rejected has returned the link with UTM
\* parameters appended.
C1_Witness ==
    \E r \in Req :
        /\ req[r].op = "findOne"
        /\ req[r].pub = "rejected"
        /\ req[r].response.kind = "ok"
        /\ req[r].data[1].utm # NoUtm

\* C2: the response of findOne does not wait for the publish call: whenever
\* a publish call is in flight, its resolve has already answered the caller.
C2_ResponseDoesNotWaitForPublish ==
    \A r \in Req : req[r].pub = "pending" => req[r].response # Pending

\* C3: a resolve that finds only an expired link and a resolve of a key that
\* was never created end alike: both have failed, with the same error kind
\* and the same message, the not-found error of findOne.
C3_ExpiredLikeNeverCreated ==
    \A r1, r2 \in Req :
        (/\ req[r1].op = "findOne" /\ req[r1].lookup = "expired"
         /\ req[r2].op = "findOne" /\ req[r2].lookup = "absent") =>
            /\ req[r1].pc = "done" /\ req[r2].pc = "done"
            /\ req[r1].response = req[r2].response
            /\ req[r1].response.kind = "BadRequestException"
            /\ req[r1].response.message = "Shortened url is wrong or expired"
            /\ CallsOf(r1) = {} /\ CallsOf(r2) = {}

\* One resolve met an expired link, another a key no link was ever created for.
C3_Witness ==
    \E r1, r2 \in Req :
        /\ req[r1].op = "findOne" /\ req[r1].lookup = "expired"
        /\ req[r2].op = "findOne" /\ req[r2].lookup = "absent"
        /\ \E i \in DOMAIN store : store[i].key = req[r1].key /\ IsExpired(store[i], now)

\* The link a resolve read from the store when its key had a live link.
LinkRead(r) == CHOOSE link \in Range(store) : link.key = req[r].key

\* C4: for a live link with a stored password, resolve fails with
\* Unauthorized when the supplied password (default "") does not verify
\* against it and gets through to the destination when it verifies; for a
\* live link without a stored password every supplied password gets through.
\* (Stated of a resolve whose verifyPassword call, if any, has settled.)
C4_PasswordGate ==
    \A r \in Req :
        (req[r].op = "findOne" /\ req[r].lookup = "live" /\ req[r].pc # "verifyPassword") =>
            LET link == LinkRead(r)
                verifies == verifyPassword(link.password, req[r].password)
            IN /\ (link.password # NoPassword /\ ~verifies) =>
                      (req[r].pc = "done" /\ req[r].response = UnauthorizedError)
               /\ (link.password # NoPassword /\ verifies) => Resolved(r, link)
               /\ link.password = NoPassword => Resolved(r, link)

\* A wrong (here: absent) password was refused and the right one returned
\* the destination of the same protected link.
C4_Witness ==
    \E r1, r2 \in Req :
        /\ req[r1].op = "findOne" /\ req[r1].lookup = "live" /\ req[r1].password = ""
        /\ req[r1].response = UnauthorizedError
        /\ req[r2].op = "findOne" /\ req[r2].lookup = "live" /\ req[r2].password = "p1"
        /\ req[r2].response.kind = "ok"
        /\ LinkRead(r2).password = hashPassword("p1")

\* C5: a resolve that failed (unknown or expired key, or a password that does
\* not verify) has published nothing; a resolve that succeeded has issued
\* exactly one publish call, carrying the key of the link it resolved; and
\* every publish call belongs to a resolve that passed both gates.
C5_PublishOnlyOnSuccess ==
    /\ \A r \in Req :
          (req[r].op = "findOne" /\ req[r].pc = "done") =>
              IF req[r].response.kind = "ok"
              THEN /\ Cardinality(CallsOf(r)) = 1
                   /\ \A i \in CallsOf(r) :
                          /\ publishCalls[i].key = req[r].response.key
                          /\ publishCalls[i].key = LinkRead(r).key
              ELSE /\ req[r].response \in {NotFoundError, UnauthorizedError}
                   /\ CallsOf(r) = {}
    /\ \A i \in DOMAIN publishCalls :
          LET r == publishCalls[i].rid
          IN /\ req[r].op = "findOne"
             /\ req[r].lookup = "live"
             /\ \/ LinkRead(r).password = NoPassword
                \/ verifyPassword(LinkRead(r).password, req[r].password)

\* One resolve succeeded and published, one failed the password gate and one
\* failed the lookup.
C5_Witness ==
    \E r1, r2 \in Req :
        /\ req[r1].op = "findOne" /\ req[r1].response.kind = "ok"
        /\ Cardinality(CallsOf(r1)) = 1
        /\ req[r2].op = "findOne" /\ req[r2].pc = "done"
        /\ req[r2].response \in {UnauthorizedError, NotFoundError}

(***************************************************************************)
(* Properties of link creation.  C6, C9 and C10 are checked under          *)
(* SpecFormat, C7 and C8 under SpecCreate.                                 *)
(***************************************************************************)
\* The links a creation call has stored.
LinksBy(r, i) == {k \in DOMAIN store : store[k].id = <<r, i>>}

\* How entry i of creation request r has ended so far: the request's own
\* failure when it was refused before any service call, else the outcome of
\* the entry's service call.
EntryOutcome(r, i) ==
    IF req[r].entries = <<>> THEN req[r].response
    ELSE ShortenerResult(req[r].entries[i])

\* The checks that come before the allocation of a key: validation of the
\* body (POST shortener only), the url screening, and (bulk only) the
\* verified check.
EarlierChecksPass(r) ==
    /\ req[r].op = "shortener" => ShortenerDtoValid(req[r].dtos[1])
    /\ config.safeUrlEnable => \A i \in DOMAIN req[r].dtos : isSafeUrl(req[r].dtos[i].url)
    /\ req[r].op = "bulk" => req[r].user.verified

\* A step leaves the store alone or appends one link to it.
StoreOnlyGrows ==
    \/ store' = store
    \/ /\ Len(store') = Len(store) + 1
       /\ SubSeq(store', 1, Len(store)) = store

\* C6 as claimed: every creation with a requested key that is already in the
\* store fails with KeyConflict (a bulk entry: once its call has run) and
\* stores no link.
C6_TakenKeyIsKeyConflict ==
    \A r \in Req : \A i \in req[r].present :
        /\ EntryOutcome(r, i) \in {Pending, KeyConflictError}
        /\ LinksBy(r, i) = {}

\* C6, amended: every creation with a requested key that is already in the
\* store fails, stores no link and changes no stored link; the failure is
\* KeyConflict whenever the request passes the checks that come before the
\* allocation, and otherwise the failure of the first of those checks.
C6_TakenKeyStoresNothing ==
    [][/\ StoreOnlyGrows
       /\ \A r \in Req : \A i \in req'[r].present :
             /\ LinksBy(r, i)' = {}
             /\ EntryOutcome(r, i)'.kind # "ok"
             /\ req'[r].op = "shortener" =>
                    /\ req'[r].pc \in {"isSafeUrl", "isKeyAvailable", "done"}
                    /\ req'[r].entries = <<>>
             /\ IF EarlierChecksPass(r)'
                THEN EntryOutcome(r, i)' \in {Pending, KeyConflictError}
                ELSE EntryOutcome(r, i)' \in
                         {Pending, InvalidUrlError, InvalidKeyFormatError,
                          InvalidExpirationTimeError, InvalidUtmError,
                          UnsafeUrlError, NotVerifiedError}]_vars

\* A bulk entry has stored a link, and a single request that arrived with
\* that link's key was refused with KeyConflict by the availability check.
C6_Witness ==
    \E r1, r2 \in Req :
        /\ req[r1].op = "bulk" /\ LinksBy(r1, 1) # {}
        /\ req[r2].op = "shortener" /\ req[r2].present = {1}
        /\ \A k \in LinksBy(r1, 1) : store[k].key = req[r2].dtos[1].key
        /\ req[r2].entries = <<>>
        /\ req[r2].response = KeyConflictError

\* C7: no two stored links have the same key.
C7_KeysUnique ==
    \A i, j \in DOMAIN store : i # j => store[i].key # store[j].key

\* Two links are stored, by a single and by a bulk request, one under a
\* generated key, and an insert of a taken key has been refused.
C7_Witness ==
    /\ Len(store) >= 2
    /\ \E i, j \in DOMAIN store :
          /\ req[store[i].id[1]].op = "shortener"
          /\ req[store[j].id[1]].op = "bulk"
          /\ (req[store[i].id[1]].dtos[1].key = NoKey
              \/ req[store[j].id[1]].dtos[store[j].id[2]].key = NoKey)
    /\ \E r \in Req : \E i \in DOMAIN req[r].entries :
          req[r].entries[i].error = KeyConflictError

\* The service calls that have run an insert for key.
Inserters(key) ==
    {c \in Req \X (1..MaxBulk) :
        /\ c[2] \in DOMAIN req[c[1]].entries
        /\ req[c[1]].entries[c[2]].key = key
        /\ \/ req[c[1]].entries[c[2]].pc = "done"
           \/ req[c[1]].entries[c[2]].error = KeyConflictError}

\* C8: of the creations that raced for one key (all passed the availability
\* check, then ran their insert) exactly one insert succeeded and stored the
\* key's only link; every other one failed with KeyConflict, the error of a
\* failed pre-check, and a POST shortener among them answered with exactly
\* that error (or, for the winner, with the key).
C8_RaceSurfacesKeyConflict ==
    \A key \in {KeyAbcd, KeyGen, KeyDash} :
        Inserters(key) # {} =>
            /\ Cardinality({k \in DOMAIN store : store[k].key = key}) = 1
            /\ Cardinality({c \in Inserters(key) :
                                req[c[1]].entries[c[2]].pc = "done"}) = 1
            /\ \A c \in Inserters(key) :
                  LET e == req[c[1]].entries[c[2]]
                  IN /\ e.pc = "done" => Cardinality(LinksBy(c[1], c[2])) = 1
                     /\ e.pc # "done" => (e.pc = "failed" /\ e.error = KeyConflictError
                                           /\ LinksBy(c[1], c[2]) = {})
                     /\ req[c[1]].op = "shortener" =>
                            req[c[1]].response =
                                (IF e.pc = "done" THEN OkKey(key) ELSE KeyConflictError)

\* Two POST shortener requests for the same requested key both passed the
\* availability check; one stored the link, the other got KeyConflict.
C8_Witness ==
    \E r1, r2 \in Req :
        /\ r1 # r2
        /\ req[r1].op = "shortener" /\ req[r2].op = "shortener"
        /\ req[r1].dtos[1].key = KeyAbcd /\ req[r2].dtos[1].key = KeyAbcd
        /\ req[r1].present = {} /\ req[r2].present = {}
        /\ req[r1].response = OkKey(KeyAbcd)
        /\ req[r2].response = KeyConflictError
        /\ req[r2].entries # <<>>

\* 4 to 20 characters of [A-Za-z0-9-].
KeyFormatOk(key) == key # NoKey /\ CreateLinkInputSchemaKey(key)

\* C9: a requested key outside the format (4 to 20 characters of
\* [A-Za-z0-9-]) is rejected with InvalidKeyFormat before any availability
\* check or insert, and no stored link has a key outside the format.
C9_OnlyWellFormedKeys ==
    /\ \A k \in DOMAIN store : KeyFormatOk(store[k].key)
    /\ \A r \in Req : \A i \in DOMAIN req[r].dtos :
          (req[r].dtos[i].key # NoKey /\ ~KeyFormatOk(req[r].dtos[i].key)) =>
              /\ req[r].op = "shortener" =>
                     /\ req[r].response \in {Pending, InvalidKeyFormatError}
                     /\ req[r].pc \in {"isSafeUrl", "done"}
                     /\ req[r].entries = <<>>
              /\ req[r].entries # <<>> =>
                     /\ req[r].entries[i].pc \in {"allocate", "failed"}
                     /\ req[r].entries[i].error \in {Pending, InvalidKeyFormatError}
                     /\ req[r].response # Pending =>
                            (req[r].pc = "done" /\ req[r].response.kind # "ok")
              /\ LinksBy(r, i) = {}

\* C10: whenever a creation request has temporary set, the link that is
\* stored for it carries no password, whatever password the request supplied.
C10_TemporaryRequestStoresNoPassword ==
    \A r \in Req : \A i \in DOMAIN req[r].dtos :
        req[r].dtos[i].temporary =>
            \A k \in LinksBy(r, i) : store[k].password = NoPassword

(***************************************************************************)
(* Properties of a creation that meets a free key (checked under           *)
(* SpecCreate).                                                            *)
(***************************************************************************)
\* The caller may create the link it asks for: of POST shortener anyone for
\* a temporary link, else a verified user below the creation limit; of POST
\* shortener/bulk any verified user.
EligibleCaller(r) ==
    IF req[r].op = "shortener"
    THEN \/ req[r].dtos[1].temporary
         \/ req[r].user.verified /\ isEligibleToCreateLink(req[r].user.id)
    ELSE req[r].user.verified

\* Entry i of creation request r asks for a well-formed key that was not in
\* the store when the request arrived, and the request passes every check
\* that precedes the service call.
AsksForFreeKey(r, i) ==
    /\ req[r].op \in {"shortener", "bulk"}
    /\ i \in DOMAIN req[r].dtos
    /\ KeyFormatOk(req[r].dtos[i].key)
    /\ i \notin req[r].present
    /\ EarlierChecksPass(r)
    /\ EligibleCaller(r)

\* C11 as claimed: a creation with a valid requested key that is not in the
\* store, by an eligible caller, succeeds and returns that key, and from
\* then on isKeyAvailable(key) is false.
C11_FreeKeyIsCreated ==
    \A r \in Req : \A i \in 1..MaxBulk :
        AsksForFreeKey(r, i) =>
            LET key == req[r].dtos[i].key IN
            /\ EntryOutcome(r, i) \in {Pending, OkKey(key)}
            /\ EntryOutcome(r, i) = OkKey(key) => ~isKeyAvailable(store, key)

\* C11, amended: such a creation ends in one of two ways.  It succeeds: its
\* one link is in the store under the key, isKeyAvailable(key) is false, a
\* POST shortener has returned the key and a bulk request that has succeeded
\* has returned it at the entry's position.  Or it fails with KeyConflict and
\* has stored nothing, and then another creation call has a link in the store
\* under the key (stored after this request arrived, since the key was free
\* then): either the availability check of POST shortener found it, or the
\* insert did; the request itself has then failed.
C11_FreeKeyIsCreatedUnlessRaced ==
    \A r \in Req : \A i \in 1..MaxBulk :
        AsksForFreeKey(r, i) =>
            LET key == req[r].dtos[i].key
                out == EntryOutcome(r, i)
            IN /\ out \in {Pending, OkKey(key), KeyConflictError}
               /\ out = OkKey(key) =>
                      /\ ~isKeyAvailable(store, key)
                      /\ Cardinality(LinksBy(r, i)) = 1
                      /\ \A k \in LinksBy(r, i) : store[k].key = key
                      /\ req[r].response.kind = "ok" =>
                             IF req[r].op = "shortener" THEN req[r].response = OkKey(key)
                             ELSE req[r].response.keys[i] = key
               /\ out = KeyConflictError =>
                      /\ LinksBy(r, i) = {}
                      /\ \E k \in DOMAIN store :
                            store[k].key = key /\ store[k].id # <<r, i>>
                      /\ req[r].pc = "done"
                      /\ req[r].response.kind # "ok"
               /\ (req[r].op = "shortener" /\ out # Pending) =>
                      (req[r].pc = "done" /\ req[r].response = out)

\* A POST shortener created the free key it asked for, and another POST
\* shortener that arrived while the key was still free was refused with
\* KeyConflict by its availability check, before any service call.
C11_Witness ==
    \E r1, r2 \in Req :
        /\ AsksForFreeKey(r1, 1)
        /\ req[r1].op = "shortener"
        /\ req[r1].response = OkKey(req[r1].dtos[1].key)
        /\ AsksForFreeKey(r2, 1)
        /\ req[r2].op = "shortener"
        /\ req[r2].dtos[1].key = req[r1].dtos[1].key
        /\ req[r2].entries = <<>>
        /\ req[r2].response = KeyConflictError

(***************************************************************************)
(* Properties of the resolved destination (checked under SpecResolve).     *)
(***************************************************************************)
\* C12: a successful resolve returns the key of the stored link and its
\* stored destination with exactly the present UTM parameters appended: the
\* destination unchanged for a link without UTM parameters, and
\* utm_source=x and utm_campaign=c, in that order and nothing for the empty
\* fields, for the link created from the filled-in UTM builder.
C12_DestinationWithPresentUtm ==
    \A r \in Req :
        (req[r].op = "findOne" /\ req[r].response.kind = "ok") =>
            LET link == LinkRead(r) IN
            /\ req[r].response.key = link.key
            /\ req[r].response.key = req[r].key
            /\ link.utm \in {NoUtm, FormUtm}
            /\ link.utm = NoUtm => req[r].response.url = link.url
            /\ link.utm = FormUtm =>
                   /\ link.url = "https://example.com"
                   /\ req[r].response.url =
                          "https://example.com?utm_source=x&utm_campaign=c"

\* A resolve returned the destination of a link whose UTM set has two
\* parameters present and four empty.
C12_Witness ==
    \E r \in Req :
        /\ req[r].op = "findOne"
        /\ req[r].response.kind = "ok"
        /\ LinkRead(r).utm["utm_source"] = "x"
        /\ LinkRead(r).utm["utm_medium"] = ""
        /\ req[r].response.url = "https://example.com?utm_source=x&utm_campaign=c"

\* C13: a resolve calls publish at most once, and after its call has failed
\* no further publish call is made for it: the event is not re-published,
\* neither by that resolve nor by any later step.
C13_NoRepublish ==
    [][\A r \in Req :
          /\ Cardinality(CallsOf(r)') <= 1
          /\ req[r].pub = "rejected" =>
                 /\ CallsOf(r)' = CallsOf(r)
                 /\ req'[r].pub = "rejected"
                 /\ req'[r].pc = "done"]_vars

\* A resolve whose publish call failed has returned after its single call,
\* and a resolve that arrived later has published its own event.
C13_Witness ==
    \E r1, r2 \in Req :
        /\ r1 < r2
        /\ req[r1].op = "findOne" /\ req[r1].pub = "rejected" /\ req[r1].pc = "done"
        /\ Cardinality(CallsOf(r1)) = 1
        /\ req[r2].op = "findOne" /\ req[r2].pub = "resolved"
        /\ Len(publishCalls) = 2

(***************************************************************************)
(* Properties of the ingestion channel (checked under SpecResolve, where   *)
(* no consumer drains the channel).                                        *)
(***************************************************************************)
\* C14: of the M events published so far the channel holds the first
\* min(M, C) and never more than C, the other M - C are in the drop log, one
\* line each, and every resolve whose event was dropped still ends with the
\* destination of its link.
C14_DropAndLog ==
    LET M == Len(publishCalls)
        C == ChannelCapacity
    IN /\ Len(channel) <= C
       /\ Len(channel) = (IF M <= C THEN M ELSE C)
       /\ Len(dropLog) = (IF M <= C THEN 0 ELSE M - C)
       /\ \A i \in DOMAIN channel : channel[i] = publishCalls[i]
       /\ \A i \in DOMAIN dropLog : dropLog[i] = publishCalls[C + i]
       /\ \A i \in DOMAIN dropLog :
              LET r == dropLog[i].rid
              IN /\ req[r].pc \in {"awaitPublish", "done"}
                 /\ req[r].pc = "done" =>
                        /\ req[r].response.kind = "ok"
                        /\ req[r].response.key = dropLog[i].key

\* More events were published than the channel holds: the channel is full,
\* one event was dropped, and every resolve has returned its destination.
C14_Witness ==
    /\ Len(publishCalls) > ChannelCapacity
    /\ Len(channel) = ChannelCapacity
    /\ Len(dropLog) = Len(publishCalls) - ChannelCapacity
    /\ \A i \in DOMAIN publishCalls :
           /\ req[publishCalls[i].rid].pc = "done"
           /\ req[publishCalls[i].rid].response.kind = "ok"

(***************************************************************************)
(* Properties of the analytics endpoints (checked under SpecAnalytics).    *)
(***************************************************************************)
\* C15: a step in which an analytics endpoint answers, with a result or with
\* NotFound, leaves every link and every click fact as it was.
C15_AggregatorReadOnly ==
    [][aq' # aq => (store' = store /\ facts' = facts)]_vars

\* A grouping endpoint has answered from a store with a link and facts.
C15_Witness ==
    \E a \in DOMAIN aq :
        /\ aq[a].endpoint = "city"
        /\ aq[a].kind = "ok"
        /\ aq[a].data # {}
        /\ Len(facts) = MaxFacts

\* The facts that were persisted when the request was served.
FactsAsOf(q) == SubSeq(facts, 1, q.asOf)

\* The facts (as of the request) of the user's link with the request's key.
LinkFactsAsOf(q) ==
    {j \in 1..q.asOf :
        \E i \in DOMAIN store : /\ store[i].id = facts[j].linkId
                                 /\ store[i].key = q.key
                                 /\ store[i].userId = q.userId}

RECURSIVE SumCounts(_)
SumCounts(rows) ==
    IF rows = {} THEN 0
    ELSE LET row == CHOOSE x \in rows : TRUE IN row.count + SumCounts(rows \ {row})

\* C16 as claimed: the device counts of a link over a window sum to the
\* link's totalVisits, as GET analytics/:key/total reports it on the same
\* facts.
C16_DeviceCountsSumToTotal ==
    /\ \A a \in DOMAIN aq :
          (aq[a].endpoint = "device" /\ aq[a].kind = "ok") =>
              SumCounts(aq[a].data) =
                  getTotalVisitsByKey(FactsAsOf(aq[a]), store, aq[a].key, aq[a].userId)
    /\ \A a, b \in DOMAIN aq :
          (/\ aq[a].endpoint = "device" /\ aq[a].kind = "ok"
           /\ aq[b].endpoint = "total"
           /\ aq[b].key = aq[a].key /\ aq[b].userId = aq[a].userId
           /\ aq[b].asOf = aq[a].asOf) =>
              SumCounts(aq[a].data) = aq[b].total

\* C16, amended: the device counts of a link over a window sum to the number
\* of the link's facts whose day lies in the window; that is the link's
\* totalVisits, which GET analytics/:key/total counts over all days, exactly
\* when every fact of the link lies in the window, and less otherwise.
C16_DeviceCountsSumToWindow ==
    /\ \A a \in DOMAIN aq :
          (aq[a].endpoint = "device" /\ aq[a].kind = "ok") =>
              LET q == aq[a]
                  inWindow == {j \in LinkFactsAsOf(q) :
                                  facts[j].day > q.at - q.days /\ facts[j].day <= q.at}
                  visits == getTotalVisitsByKey(FactsAsOf(q), store, q.key, q.userId)
              IN /\ SumCounts(q.data) = Cardinality(inWindow)
                 /\ visits = Cardinality(LinkFactsAsOf(q))
                 /\ SumCounts(q.data) <= visits
                 /\ SumCounts(q.data) = visits <=> inWindow = LinkFactsAsOf(q)
                 /\ \A row \in q.data : row.count > 0
    /\ \A a, b \in DOMAIN aq :
          (/\ aq[a].endpoint = "device" /\ aq[a].kind = "ok"
           /\ aq[b].endpoint = "total"
           /\ aq[b].key = aq[a].key /\ aq[b].userId = aq[a].userId
           /\ aq[b].asOf = aq[a].asOf) =>
              SumCounts(aq[a].data) <= aq[b].total

\* The device counts over a one-day window of a link with a click today and
\* a click on an earlier day.
C16_Witness ==
    \E a \in DOMAIN aq :
        /\ aq[a].endpoint = "device" /\ aq[a].kind = "ok" /\ aq[a].days = 1
        /\ SumCounts(aq[a].data) = 1
        /\ Cardinality(LinkFactsAsOf(aq[a])) = 2

\* C17: the time series of a link has one entry per calendar day of the
\* window, oldest day first and today last, each with the number of the
\* link's facts of that day, zero included; so a link whose single fact is
\* three days old has, over 7 days, the count 1 in the fourth entry and 0 in
\* the six others.
C17_ClicksOverTimeZeroFilled ==
    \A a \in DOMAIN aq :
        (aq[a].endpoint = "clicks" /\ aq[a].kind = "ok") =>
            LET q == aq[a]
                series == q.clicksOverTime
            IN /\ Len(series) = q.days
               /\ \A i \in 1..Len(series) :
                      /\ series[i].day = q.at - q.days + i
                      /\ series[i].count =
                             Cardinality({j \in LinkFactsAsOf(q) :
                                             facts[j].day = series[i].day})
               /\ (q.days = 7 /\ q.asOf = 1 /\ LinkFactsAsOf(q) = {1}
                      /\ facts[1].day = q.at - 3) =>
                      /\ Len(series) = 7
                      /\ series[4].count = 1
                      /\ \A i \in {1, 2, 3, 5, 6, 7} : series[i].count = 0

\* The 7-day time series of a link whose single fact is three days old.
C17_Witness ==
    \E a \in DOMAIN aq :
        /\ aq[a].endpoint = "clicks" /\ aq[a].kind = "ok" /\ aq[a].days = 7
        /\ aq[a].asOf = 1
        /\ facts[1].day = aq[a].at - 3
        /\ Len(aq[a].clicksOverTime) = 7
        /\ aq[a].clicksOverTime[4] = [day |-> facts[1].day, count |-> 1]

(***************************************************************************)
(* Properties of who may create what (C18 checked under SpecResolve, C19   *)
(* and C20 under SpecFormat).                                              *)
(***************************************************************************)
\* The body entry a stored link was created from.
DtoOf(link) == req[link.id[1]].dtos[link.id[2]]

\* C18: every stored link that carries a password carries the hash of the
\* password its request supplied, never the password itself, whether it was
\* created by POST shortener or as an entry of POST shortener/bulk.
C18_StoredPasswordIsHash ==
    \A k \in DOMAIN store :
        store[k].password # NoPassword =>
            /\ store[k].password = hashPassword(DtoOf(store[k]).password)
            /\ store[k].password # DtoOf(store[k]).password
            /\ verifyPassword(store[k].password, DtoOf(store[k]).password)

\* The caller of a creation request is anonymous or unverified.
Unverified(r) == ~req[r].user.verified

\* C19: a POST shortener request without temporary set and every POST
\* shortener/bulk request, when made by an anonymous or unverified caller,
\* is rejected before any service call and stores no link (with the
\* verified-user error unless a check that runs earlier refused it); the
\* only links stored for such callers are the ownerless links of temporary
\* requests.
C19_OnlyVerifiedCreateLinks ==
    /\ \A r \in Req :
          (/\ Unverified(r)
           /\ \/ req[r].op = "bulk"
              \/ req[r].op = "shortener" /\ ~req[r].dtos[1].temporary) =>
              /\ req[r].pc \in {"isSafeUrl", "isKeyAvailable", "done"}
              /\ req[r].response \in {Pending, InvalidUrlError, InvalidKeyFormatError,
                                       InvalidExpirationTimeError, InvalidUtmError,
                                       UnsafeUrlError, KeyConflictError, NotVerifiedError}
              /\ (req[r].pc = "done" /\ req[r].op = "bulk")
                     => req[r].response \in {UnsafeUrlError, NotVerifiedError}
              /\ (req[r].pc = "done" /\ req[r].op = "shortener" /\ EarlierChecksPass(r)
                    /\ ~KeyCheckFails(store, req[r].dtos[1]))
                     => req[r].response = NotVerifiedError
              /\ req[r].entries = <<>>
              /\ \A i \in 1..MaxBulk : LinksBy(r, i) = {}
    /\ \A k \in DOMAIN store :
          LET by == req[store[k].id[1]]
          IN \/ by.user.verified
             \/ /\ by.op = "shortener"
                /\ by.dtos[1].temporary
                /\ store[k].userId = NoUserId

\* An anonymous caller was refused a permanent link after the key check
\* had let it pass, and an anonymous caller has created a temporary link.
C19_Witness ==
    \E r1, r3 \in Req :
        /\ req[r1].op = "shortener" /\ Unverified(r1) /\ ~req[r1].dtos[1].temporary
        /\ req[r1].dtos[1].key # NoKey
        /\ req[r1].response = NotVerifiedError
        /\ req[r3].op = "shortener" /\ Unverified(r3) /\ req[r3].dtos[1].temporary
        /\ LinksBy(r3, 1) # {}

\* C20: every request that would create a link owned by a user who has
\* reached the link creation limit, single or bulk, is rejected with 'You
\* have reached your link creation limit' (once it is answered, and unless
\* the key check refused it first), and no link of such a user is stored.
C20_NoLinkBeyondLimit ==
    /\ \A r \in Req :
          (/\ req[r].user.verified
           /\ ~isEligibleToCreateLink(req[r].user.id)
           /\ \/ req[r].op = "bulk"
              \/ req[r].op = "shortener" /\ ~req[r].dtos[1].temporary
           /\ EarlierChecksPass(r)
           /\ req[r].present = {}
           /\ req[r].pc = "done"
           /\ req[r].op = "shortener" => req[r].response # KeyConflictError) =>
              /\ req[r].response = LimitError
              /\ req[r].response.message = "You have reached your link creation limit"
              /\ req[r].entries = <<>>
    /\ \A k \in DOMAIN store :
          store[k].userId # NoUserId => isEligibleToCreateLink(store[k].userId)

(***************************************************************************)
(* Who may read a key's analytics (checked under SpecAnalytics).           *)
(***************************************************************************)
\* The endpoints under analytics/:key.
PerKeyEndpoints ==
    {"clicks", "device", "os", "browser", "country", "region", "city", "total"}

\* A link with the request's key belonged to the caller when the request
\* was served.
OwnedAsOf(q) ==
    \E i \in 1..q.links : store[i].key = q.key /\ store[i].userId = q.userId

\* C21: every endpoint under analytics/:key, asked for a key of which the
\* caller owns no link, has, once it has answered, failed with NotFound
\* without issuing an aggregation query, and so returned no url, no count
\* and no rows.
C21_PerKeyAnalyticsOwnerScoped ==
    \A a \in DOMAIN aq :
        (aq[a].endpoint \in PerKeyEndpoints /\ aq[a].pc = "done" /\ ~OwnedAsOf(aq[a])) =>
            /\ aq[a].kind = "NotFoundException"
            /\ aq[a].issued = ""
            /\ aq[a].url = ""
            /\ aq[a].total = 0
            /\ aq[a].clicksOverTime = <<>>
            /\ aq[a].data = {}

(***************************************************************************)
(* What a failed bulk creation leaves behind (checked under SpecCreate).   *)
(***************************************************************************)
\* C22: a POST shortener/bulk request that has been answered either returned
\* one key per entry, in input order, each the key of the one link its entry
\* stored, or failed and has stored no link for any of its entries, however
\* far the calls of its other entries have run.
C22_BulkAllOrNothing ==
    \A r \in Req :
        (req[r].op = "bulk" /\ req[r].pc = "done") =>
            IF req[r].response.kind = "ok"
            THEN /\ Len(req[r].response.keys) = Len(req[r].dtos)
                 /\ \A i \in DOMAIN req[r].dtos :
                       /\ Cardinality(LinksBy(r, i)) = 1
                       /\ \A k \in LinksBy(r, i) : store[k].key = req[r].response.keys[i]
            ELSE \A i \in DOMAIN req[r].dtos : LinksBy(r, i) = {}

(***************************************************************************)
(* The dashboard's link list (src/unnamed/part_002).  The fetch task runs  *)
(* whenever one of the signals it tracks has changed; it is split at its   *)
(* one await, so a run that is waiting for its response interleaves with   *)
(* the event handlers and with later runs, and the server builds the       *)
(* response at some moment of that wait.  The listing endpoint is not part *)
(* of the sources at hand: it serves the user's links, newest first, one   *)
(* page at a time, with the number of links that match the filter.         *)
(***************************************************************************)
\* The texts typed into the filter box.
FilterTexts == {"", "x"}

\* The links the text "x" matches: the user's oldest link.
LinksWithX == {1}

Matching(links, text) == IF text = "" THEN links ELSE links \cap LinksWithX

\* The newest of a set of links (0 when there is none).
Newest(links) ==
    IF links = {} THEN 0 ELSE CHOOSE x \in links : \A y \in links : y <= x

\* Line 57: createdAt DESC.
RECURSIVE NewestFirst(_)
NewestFirst(links) ==
    IF links = {} THEN <<>>
    ELSE <<Newest(links)>> \o NewestFirst(links \ {Newest(links)})

\* Lines 67-73: the page of the matching links, and how many match.
fetchWithPagination(links, pageNo, pageSize, text) ==
    LET rows == NewestFirst(Matching(links, text))
        last == IF pageNo * pageSize < Len(rows) THEN pageNo * pageSize ELSE Len(rows)
    IN [data |-> SubSeq(rows, (pageNo - 1) * pageSize + 1, last), total |-> Len(rows)]

\* Lines 80 and 82-86: every link of the response is put into the map under
\* its key; a key that is in the map keeps its place.
RECURSIVE SetEach(_, _)
SetEach(map, data) ==
    IF data = <<>> THEN map
    ELSE SetEach(IF Head(data) \in Range(map) THEN map ELSE Append(map, Head(data)),
                 Tail(data))

\* Line 105: Math.ceil(total / limit).
MaxPages(count, pageSize) == (count + pageSize - 1) \div pageSize

\* Lines 44, 224, 232, 266, 298 and 308: the component function runs again
\* when a signal it read by its last run changes, and computes linksArray
\* from the map; writes into the map notify nobody.  It reads isLoadingData
\* in every run (line 266 or 298).  The prop expressions of lines 224
\* (idToDelete.value), 232 (qrLink.value) and 308 (filter.value, on the
\* branch with no links and no spinner) are read by the component function
\* when the JSX is evaluated as it is written; the optimizer of the build
\* wraps such expressions, and then the child that takes the prop reads the
\* signal and this component is not run again.
Renders ==
    \/ isLoadingData' # isLoadingData
    \/ /\ ~wrapsProps
       /\ \/ propsRead' # propsRead
          \/ linksArray = <<>> /\ ~isLoadingData /\ filter' # filter

\* Lines 224 and 232: the values of idToDelete and qrLink after a handler
\* has set one of them, as far as the component function reads them.
Reads(field, value) ==
    propsRead' = IF wrapsProps THEN propsRead ELSE [propsRead EXCEPT ![field] = value]

\* The list after the step: rendered again from the map, or left as it is.
Rendered == linksArray' = IF Renders THEN linksMap' ELSE linksArray

\* Lines 50-73: the fetch task up to its await.  A pending refetch resets
\* the page; the request carries the page and the filter of this moment.
\* Writing the page it tracks schedules the task again.
FetchTask ==
    /\ taskDirty
    /\ Len(fetches) < MaxFetches
    /\ page' = IF refetch # 0 THEN 1 ELSE page
    /\ isLoadingData' = TRUE
    /\ fetches' = Append(fetches, [page |-> page', filter |-> filter, response |-> <<>>])
    /\ taskDirty' = (page' # page)
    /\ UNCHANGED <<errorToast, server, total, filter, refetch, linksMap, forms, component, backend>>
    /\ Rendered

\* The fetches in flight without the one that has settled.
Without(fs, i) == SubSeq(fs, 1, i - 1) \o SubSeq(fs, i + 1, Len(fs))

\* Lines 67-73, the server's side: the listing endpoint reads the user's
\* links and builds the response, while the task waits.
FetchServed(i) ==
    /\ i \in DOMAIN fetches
    /\ fetches[i].response = <<>>
    /\ fetches' = [fetches EXCEPT ![i].response =
                       <<fetchWithPagination(listing, fetches[i].page, limit,
                                             fetches[i].filter)>>]
    /\ UNCHANGED <<errorToast, server, page, total, filter, refetch, isLoadingData,
                   linksMap, linksArray, taskDirty, forms, component, backend>>

\* Line 77: the map is replaced when a filter is set and the page is 1, or
\* a refetch is pending, as the signals are when the awaited value arrives.
Replaces == (filter # "" /\ page = 1) \/ refetch # 0

\* Lines 75-88: a response arrives.  The map is replaced or the response is
\* merged into it, and the total is taken from the response.
FetchResponse(i) ==
    /\ i \in DOMAIN fetches
    /\ fetches[i].response # <<>>
    /\ LET response == fetches[i].response[1]
       IN /\ linksMap' = SetEach(IF Replaces THEN <<>> ELSE linksMap, response.data)
          /\ refetch' = IF Replaces THEN 0 ELSE refetch
          /\ total' = response.total
    /\ isLoadingData' = FALSE
    /\ taskDirty' = (taskDirty \/ refetch' # refetch)
    /\ fetches' = Without(fetches, i)
    /\ UNCHANGED <<errorToast, server, page, filter, forms, component, backend>>
    /\ Rendered

\* Lines 75-80 and 89-96: the awaited value has no data (the body of an
\* error answer of the endpoint).  The spinner stops; on the replacing
\* branch refetch is reset and the map cleared before data.data.forEach
\* throws, on the other branch it throws at once; the catch block shows the
\* toast.  The total is not written.
FetchMalformed(i) ==
    /\ i \in DOMAIN fetches
    /\ fetches[i].response = <<>>
    /\ linksMap' = IF Replaces THEN <<>> ELSE linksMap
    /\ refetch' = IF Replaces THEN 0 ELSE refetch
    /\ errorToast' = TRUE
    /\ isLoadingData' = FALSE
    /\ taskDirty' = (taskDirty \/ refetch' # refetch)
    /\ fetches' = Without(fetches, i)
    /\ UNCHANGED <<server, page, total, filter, forms, component, backend>>
    /\ Rendered

\* Lines 89-96: the fetch fails; a toast is shown and the spinner stops.
FetchFails(i) ==
    /\ i \in DOMAIN fetches
    /\ errorToast' = TRUE
    /\ isLoadingData' = FALSE
    /\ fetches' = Without(fetches, i)
    /\ UNCHANGED <<server, page, total, filter, refetch, linksMap, taskDirty, forms, component, backend>>
    /\ Rendered

\* Lines 104-115: checkScroll, as the debounced scroll listener calls it.
checkScroll(nearBottom) ==
    /\ page' = IF MaxPages(total, limit) = 0 \/ page > MaxPages(total, limit) - 1
               THEN page
               ELSE IF ~nearBottom THEN page
               ELSE page + 1
    /\ taskDirty' = (taskDirty \/ page' # page)
    /\ UNCHANGED <<errorToast, server, total, filter, refetch, isLoadingData, linksMap,
                   linksArray, fetches, forms, component, backend>>

\* Lines 236-239: the filter box changes.
FilterInput(text) ==
    /\ filter' = text
    /\ page' = 1
    /\ taskDirty' = (taskDirty \/ filter' # filter \/ page' # page)
    /\ UNCHANGED <<errorToast, server, total, refetch, isLoadingData, linksMap, fetches,
                   forms, component, backend>>
    /\ Rendered

\* The forms of the page that are in use; each of them can raise refetch
\* once.
Submissions ==
    (IF modal.pc # "idle" THEN 1 ELSE 0)
        + (IF deleting.pc # "idle" THEN 1 ELSE 0)
        + (IF upload.pc # "idle" THEN 1 ELSE 0)

\* A form may be taken into use while refetch and the forms in use stay
\* within the bound on refetch.
CanSubmit == refetch + Submissions < MaxRefetch

\* link-modal.tsx lines 280-282: the form of the link modal is submitted.
LinkModalSubmit ==
    /\ modal.pc = "idle"
    /\ CanSubmit
    /\ lastLink < MaxLinks
    /\ modal' = [pc |-> "running", status |-> 0]
    /\ UNCHANGED <<errorToast, server, page, total, filter, refetch, isLoadingData,
                   linksMap, linksArray, taskDirty, fetches, deleting, upload, component, backend>>

\* link-modal.tsx lines 97-150: useCreateLink, the action of the link
\* modal, up to its POST.  An input the schema or the toggles refuse makes
\* the action fail with status 400 and nothing is posted.
useCreateLink(fieldErrors) ==
    /\ modal.pc = "running"
    /\ modal' = IF fieldErrors THEN [pc |-> "completed", status |-> 400]
                ELSE [pc |-> "posted", status |-> 0]
    /\ UNCHANGED <<errorToast, server, page, total, filter, refetch, isLoadingData,
                   linksMap, linksArray, taskDirty, fetches, deleting, upload, component, backend>>

\* link-modal.tsx lines 144-151, the server's side: POST shortener stores
\* the link and answers 201, or refuses the request.
useCreateLinkPosted(created) ==
    /\ modal.pc = "posted"
    /\ listing' = IF created THEN listing \cup {lastLink + 1} ELSE listing
    /\ lastLink' = IF created THEN lastLink + 1 ELSE lastLink
    /\ modal' = [pc |-> "answered", status |-> IF created THEN 201 ELSE 400]
    /\ UNCHANGED <<errorToast, page, total, filter, refetch, isLoadingData, linksMap,
                   linksArray, taskDirty, fetches, deleting, upload, component, backend>>

\* link-modal.tsx lines 153-165: the action returns {url, key} for a 201
\* (status 200) and fails with status 500 for any other answer.
useCreateLinkReturns ==
    /\ modal.pc = "answered"
    /\ modal' = [pc |-> "completed", status |-> IF modal.status = 201 THEN 200 ELSE 500]
    /\ UNCHANGED <<errorToast, server, page, total, filter, refetch, isLoadingData,
                   linksMap, linksArray, taskDirty, fetches, deleting, upload, component, backend>>

\* Lines 126-135: onModalSubmit raises refetch and clears the filter.
onModalSubmit ==
    /\ refetch' = refetch + 1
    /\ filter' = ""
    /\ taskDirty' = TRUE

\* link-modal.tsx lines 283-290: onSubmitCompleted$ of the link modal calls
\* the page's handler when the action's status is 200, and nothing else.
onSubmitCompleted ==
    /\ modal.pc = "completed"
    /\ modal' = IdleModal
    /\ IF modal.status = 200 THEN onModalSubmit
                             ELSE UNCHANGED <<refetch, filter, taskDirty>>
    /\ UNCHANGED <<errorToast, server, page, total, isLoadingData, linksMap, fetches,
                   deleting, upload, component, backend>>
    /\ Rendered

\* The links whose delete button is pressed: the oldest one (the one the
\* filter text matches), one of the middle of the first page, the newest of
\* the first page and the one created on the page.
DeleteInputs == {1, 5, 10, 11}

\* Lines 291-294: onDelete of a link of the rendered list sets idToDelete
\* and opens the delete modal.
onDelete(id) ==
    /\ deleting.pc \in {"idle", "picked"}
    /\ deleting.pc = "idle" => CanSubmit
    /\ id \in Range(linksArray)
    /\ lastLink - Cardinality(listing) < MaxDeleted
    /\ deleting' = [pc |-> "picked", idToDelete |-> id, status |-> 0]
    /\ Reads("idToDelete", id)
    /\ wrapsProps' = wrapsProps
    /\ UNCHANGED <<errorToast, server, page, total, filter, refetch, isLoadingData,
                   linksMap, taskDirty, fetches, modal, upload, backend>>
    /\ Rendered

\* The links whose QR code is asked for.
QrInputs == {5}

\* Lines 287-290: onShowQR of a link of the rendered list sets qrLink and
\* opens the QR dialog.
onShowQR(id) ==
    /\ id \in Range(linksArray)
    /\ Reads("qrLink", id)
    /\ wrapsProps' = wrapsProps
    /\ UNCHANGED <<errorToast, server, page, total, filter, refetch, isLoadingData,
                   linksMap, taskDirty, fetches, forms, backend>>
    /\ Rendered

\* Lines 220-230: the delete modal is closed without a deletion.
DeleteModalClose ==
    /\ deleting.pc = "picked"
    /\ deleting' = IdleDeleting
    /\ UNCHANGED <<errorToast, server, page, total, filter, refetch, isLoadingData,
                   linksMap, linksArray, taskDirty, fetches, modal, upload, component, backend>>

\* Lines 220-230: the delete modal is confirmed and its action starts for
\* the link idToDelete names at that moment.
DeleteModalSubmit ==
    /\ deleting.pc = "picked"
    /\ deleting' = [deleting EXCEPT !.pc = "running"]
    /\ UNCHANGED <<errorToast, server, page, total, filter, refetch, isLoadingData,
                   linksMap, linksArray, taskDirty, fetches, modal, upload, component, backend>>

\* Line 48: useDeleteLink, the action of the delete modal, on the server.
\* The link is deleted, or the request is refused (as it is for a link that
\* is no longer there).
useDeleteLink(deleted) ==
    /\ deleting.pc = "running"
    /\ deleted => deleting.idToDelete \in listing
    /\ listing' = IF deleted THEN listing \ {deleting.idToDelete} ELSE listing
    /\ deleting' = [pc |-> "completed", idToDelete |-> 0,
                    status |-> IF deleted THEN 200 ELSE 500]
    /\ UNCHANGED <<errorToast, lastLink, page, total, filter, refetch, isLoadingData,
                   linksMap, linksArray, taskDirty, fetches, modal, upload, component, backend>>

\* Lines 221-223: the submit handler of the delete modal raises refetch.
onDeleteSubmit ==
    /\ refetch' = refetch + 1
    /\ taskDirty' = TRUE

\* Lines 220-230: the delete modal has its answer and calls the page's
\* handler after a deletion that succeeded.
DeleteCompleted ==
    /\ deleting.pc = "completed"
    /\ deleting' = IdleDeleting
    /\ IF deleting.status = 200 THEN onDeleteSubmit
                                ELSE UNCHANGED <<refetch, taskDirty>>
    /\ UNCHANGED <<errorToast, server, page, total, filter, isLoadingData, linksMap,
                   linksArray, fetches, modal, upload, component, backend>>

\* Lines 173-179 and 215: a file is chosen for group shortening; the
\* spinner is set and the file is handed to the reader.  urls is the number
\* of rows of its first sheet that hold a valid url.
handleFileUpload(urls) ==
    /\ upload.pc = "idle"
    /\ CanSubmit
    /\ lastLink + urls <= MaxLinks
    /\ isLoadingData' = TRUE
    /\ upload' = [pc |-> "reading", urls |-> urls]
    /\ UNCHANGED <<errorToast, server, page, total, filter, refetch, linksMap,
                   taskDirty, fetches, modal, deleting, component, backend>>
    /\ Rendered

\* Lines 181-195 and 205-212: reader.onload.  The sheet is read and the urls
\* are submitted to the bulk action; a file that cannot be read throws into
\* the catch block, which shows the toast and stops the spinner.
readerOnload(readable) ==
    /\ upload.pc = "reading"
    /\ upload' = IF readable THEN [upload EXCEPT !.pc = "posted"] ELSE IdleUpload
    /\ errorToast' = (errorToast \/ ~readable)
    /\ isLoadingData' = (readable /\ isLoadingData)
    /\ UNCHANGED <<server, page, total, filter, refetch, linksMap, taskDirty, fetches,
                   modal, deleting, component, backend>>
    /\ Rendered

\* Lines 146-153, the server's side: POST shortener/bulk stores one link
\* per url and answers 201, or refuses the request.
useCreateBulkLinkPosted(created) ==
    /\ upload.pc = "posted"
    /\ listing' = IF created THEN listing \cup (lastLink + 1 .. lastLink + upload.urls)
                             ELSE listing
    /\ lastLink' = IF created THEN lastLink + upload.urls ELSE lastLink
    /\ upload' = [pc |-> "answered", urls |-> 0]
    /\ UNCHANGED <<errorToast, page, total, filter, refetch, isLoadingData, linksMap,
                   linksArray, taskDirty, fetches, modal, deleting, component, backend>>

\* Lines 155-164: useCreateBulkLink returns the keys or fails; the action
\* has completed either way.
useCreateBulkLink ==
    /\ upload.pc = "answered"
    /\ upload' = [pc |-> "completed", urls |-> 0]
    /\ UNCHANGED <<errorToast, server, page, total, filter, refetch, isLoadingData,
                   linksMap, linksArray, taskDirty, fetches, modal, deleting, component, backend>>

\* Lines 168-171 and 195-204: createLink returns whatever the action
\* answered; the spinner stops and refetch is raised, the filter is kept.
UploadCompleted ==
    /\ upload.pc = "completed"
    /\ upload' = IdleUpload
    /\ isLoadingData' = FALSE
    /\ refetch' = refetch + 1
    /\ taskDirty' = TRUE
    /\ UNCHANGED <<errorToast, server, page, total, filter, linksMap, fetches, modal,
                   deleting, component, backend>>
    /\ Rendered

\* The dashboard is opened over an idle backend.
InitPage == InitWith(1) /\ ~config.safeUrlEnable /\ wrapsProps

\* The same page with its JSX evaluated as it is written.
InitPageAsWritten == InitWith(1) /\ ~config.safeUrlEnable /\ ~wrapsProps

NextDashboard ==
    \/ FetchTask
    \/ \E i \in 1..MaxFetches : FetchServed(i)
    \/ \E i \in 1..MaxFetches : FetchResponse(i)
    \/ \E i \in 1..MaxFetches : FetchMalformed(i)
    \/ \E i \in 1..MaxFetches : FetchFails(i)
    \/ \E nearBottom \in BOOLEAN : checkScroll(nearBottom)
    \/ \E text \in FilterTexts : FilterInput(text)
    \/ LinkModalSubmit
    \/ \E fieldErrors \in BOOLEAN : useCreateLink(fieldErrors)
    \/ \E created \in BOOLEAN : useCreateLinkPosted(created)
    \/ useCreateLinkReturns
    \/ onSubmitCompleted
    \/ \E id \in DeleteInputs : onDelete(id)
    \/ \E id \in QrInputs : onShowQR(id)
    \/ DeleteModalClose
    \/ DeleteModalSubmit
    \/ \E deleted \in BOOLEAN : useDeleteLink(deleted)
    \/ DeleteCompleted
    \/ \E urls \in 0..MaxUrls : handleFileUpload(urls)
    \/ \E readable \in BOOLEAN : readerOnload(readable)
    \/ \E created \in BOOLEAN : useCreateBulkLinkPosted(created)
    \/ useCreateBulkLink
    \/ UploadCompleted

SpecDashboard == InitPage /\ [][NextDashboard]_vars

SpecDashboardAsWritten == InitPageAsWritten /\ [][NextDashboard]_vars

(***************************************************************************)
(* Properties of the dashboard's link list (checked under SpecDashboard).  *)
(***************************************************************************)
\* The last page of the list as the dashboard knows its total: at least 1.
LastPage == IF MaxPages(total, limit) > 1 THEN MaxPages(total, limit) ELSE 1

\* C23: the page is always between 1 and the last page of the total shown,
\* max(1, ceil(total / limit)); a step raises the page by at most one, and
\* by nothing while the total is 0.
C23_PageWithinLastPage ==
    /\ [](page >= 1 /\ page <= LastPage)
    /\ [][page' > page => (page' = page + 1 /\ total # 0)]_vars

\* No fetch is in flight and none is scheduled, and no form's submission is
\* under way (each of them ends with a refetch).
Quiet == fetches = <<>> /\ ~taskDirty /\ forms = <<IdleModal, IdleDeleting, IdleUpload>>

\* Pages 1..pageNo of the listing's links that match the text.
PagesUpTo(links, pageNo, text) ==
    UNION {Range(fetchWithPagination(links, p, limit, text).data) : p \in 1..pageNo}

\* C24: whenever no fetch is in flight or scheduled and no creation or
\* deletion is under way, and no load has failed, the links shown are
\* exactly pages 1..page of the user's links that match the current filter.
C24_LinksMapIsPagesShown ==
    (Quiet /\ ~errorToast) => Range(linksMap) = PagesUpTo(listing, page, filter)

====
